---- MODULE Spec2Model ----
(***************************************************************************)
(* Model of the MC6800 simulator core: the bounds-checked memory access    *)
(* methods (lib/mc6800sim/memory.py) and the opcode implementations        *)
(* (lib/testmc/mc6800/opimpl.py), the opcode table                         *)
(* (lib/testmc/mc6800/opcodes.py) and the symbol table                     *)
(* (lib/testmc/symtab.py).                                                 *)
(*                                                                         *)
(* The memory is a Python mutable sequence (a bytearray).  It is kept as   *)
(* its length and the cells that are not zero; every other cell below the  *)
(* length holds zero.  Python's index and slice rules (negative indices    *)
(* count from the end, slices are clamped, a slice assignment of another   *)
(* length resizes the sequence) are modelled as Python computes them.      *)
(***************************************************************************)
EXTENDS Integers, Sequences, FiniteSets, TLC

VARIABLES m, pre, last, hist, steps, limit, OPCODES, Instructions, symbols

vars == <<m, pre, last, hist, steps, limit, OPCODES, Instructions, symbols>>

\* ---------------------------------------------------------------- bounds
MaxOps == 1
MaxSteps == 2
MaxVals == 2
MaxEntries == 3
MaxSyms == 3
MaxDepth == 2

\* ------------------------------------------------------ program constants
ByteMax == 255
WordMax == 65535
LastAddr == 65535
MemSize == LastAddr + 1

Max(p, q) == IF p > q THEN p ELSE q
Min(p, q) == IF p < q THEN p ELSE q

\* ------------------------------------------------- the Python sequence
Cell(mem, i) == IF i \in DOMAIN mem.cells THEN mem.cells[i] ELSE 0

\* sequence[i]: a negative index counts from the end
pyindex(mem, i) == IF i < 0 THEN i + mem.len ELSE i

getitem(mem, i) ==
    LET j == pyindex(mem, i) IN
    IF j < 0 \/ j >= mem.len
    THEN [kind |-> "IndexError", val |-> 0]
    ELSE [kind |-> "ok", val |-> Cell(mem, j)]

\* slice bound: negative counts from the end, then clamped to 0..len
slicebound(mem, i) == Min(Max(IF i < 0 THEN i + mem.len ELSE i, 0), mem.len)

getslice(mem, start, stop) ==
    LET lo == slicebound(mem, start)
        hi == Max(slicebound(mem, stop), lo)
    IN  [k \in 1..(hi - lo) |-> Cell(mem, lo + k - 1)]

\* sequence[start:stop] = vlist: the slice is replaced by vlist and the
\* cells after the slice move when the lengths differ
setslice(mem, start, stop, vlist) ==
    LET lo == slicebound(mem, start)
        hi == Max(slicebound(mem, stop), lo)
        n == Len(vlist)
        delta == n - (hi - lo)
        D == DOMAIN mem.cells
        dom == {i \in D : i < lo}
               \cup {lo + k - 1 : k \in {k \in 1..n : vlist[k] # 0}}
               \cup {i + delta : i \in {i \in D : i >= hi}}
    IN  [len |-> mem.len + delta,
         cells |-> [j \in dom |->
                      IF j < lo THEN mem.cells[j]
                      ELSE IF j < lo + n THEN vlist[j - lo + 1]
                      ELSE mem.cells[j - delta]]]

\* sequence[i] = v for an index in range
setitem(mem, i, v) ==
    LET j == pyindex(mem, i)
        D == DOMAIN mem.cells
        dom == IF v = 0 THEN D \ {j} ELSE D \cup {j}
    IN  [len |-> mem.len,
         cells |-> [k \in dom |-> IF k = j THEN v ELSE mem.cells[k]]]

\* bytes(bs): fails on an element that is not a byte
tobytes(bs) ==
    IF \A k \in 1..Len(bs) : bs[k] >= 0 /\ bs[k] <= ByteMax
    THEN [kind |-> "ok", ret |-> bs]
    ELSE [kind |-> "ValueError", ret |-> <<>>]

\* ------------------------------------------------------- MemoryAccess
byte(mem, addr) ==
    LET r == getitem(mem, addr) IN
    IF r.kind = "ok" THEN [kind |-> "ok", ret |-> <<r.val>>]
    ELSE [kind |-> r.kind, ret |-> <<>>]

bytes(mem, addr, n) ==
    LET bs == getslice(mem, addr, addr + n) IN
    IF Len(bs) < n THEN [kind |-> "IndexError", ret |-> <<>>]
    ELSE tobytes(bs)

word_littleendian(mem, addr) ==
    LET hi == getitem(mem, addr)
        lo == getitem(mem, addr + 1)
    IN  IF hi.kind # "ok" THEN [kind |-> hi.kind, ret |-> <<>>]
        ELSE IF lo.kind # "ok" THEN [kind |-> lo.kind, ret |-> <<>>]
        ELSE [kind |-> "ok", ret |-> <<lo.val * 256 + hi.val>>]

word(mem, addr) ==
    LET hi == getitem(mem, addr)
        lo == getitem(mem, addr + 1)
    IN  IF hi.kind # "ok" THEN [kind |-> hi.kind, ret |-> <<>>]
        ELSE IF lo.kind # "ok" THEN [kind |-> lo.kind, ret |-> <<>>]
        ELSE [kind |-> "ok", ret |-> <<hi.val * 256 + lo.val>>]

RECURSIVE wordsfrom(_, _, _)
wordsfrom(mem, i, stop) ==
    IF i >= stop THEN [kind |-> "ok", ret |-> <<>>]
    ELSE LET w == word(mem, i) IN
         IF w.kind # "ok" THEN w
         ELSE LET rest == wordsfrom(mem, i + 2, stop) IN
              IF rest.kind # "ok" THEN rest
              ELSE [kind |-> "ok", ret |-> w.ret \o rest.ret]

words(mem, addr, n) == wordsfrom(mem, addr, addr + n * 2)

\* An argument of deposit/depword: an Integral (v holds the one number), a
\* Sequence of numbers, or a value of another type.
deposit_assertvalue(x) == ~(x < 0 \/ x > ByteMax)

depword_assertvalue(x) == ~(x < 0 \/ x > WordMax)

RECURSIVE deposit_vlist(_, _)
deposit_vlist(values, vlist) ==
    IF values = <<>> THEN [kind |-> "ok", vlist |-> vlist]
    ELSE LET value == Head(values) IN
         IF value.tag = "Integral"
         THEN IF deposit_assertvalue(value.v[1])
              THEN deposit_vlist(Tail(values), Append(vlist, value.v[1]))
              ELSE [kind |-> "ValueError", vlist |-> <<>>]
         ELSE IF value.tag = "Sequence"
         THEN IF \A k \in 1..Len(value.v) : deposit_assertvalue(value.v[k])
              THEN deposit_vlist(Tail(values), vlist \o value.v)
              ELSE [kind |-> "ValueError", vlist |-> <<>>]
         ELSE [kind |-> "ValueError", vlist |-> <<>>]

deposit_looselimit(mem, addr, values) ==
    LET c == deposit_vlist(values, <<>>) IN
    IF c.kind # "ok" THEN [kind |-> c.kind, ret |-> <<>>, mem |-> mem]
    ELSE LET lastaddr == addr + Len(c.vlist) - 1 IN
         IF lastaddr > LastAddr + 1
         THEN [kind |-> "IndexError", ret |-> <<>>, mem |-> mem]
         ELSE [kind |-> "ok", ret |-> c.vlist,
               mem |-> setslice(mem, addr, lastaddr + 1, c.vlist)]

deposit_shortslice(mem, addr, values) ==
    LET c == deposit_vlist(values, <<>>) IN
    IF c.kind # "ok" THEN [kind |-> c.kind, ret |-> <<>>, mem |-> mem]
    ELSE LET lastaddr == addr + Len(c.vlist) - 1 IN
         IF lastaddr > LastAddr
         THEN [kind |-> "IndexError", ret |-> <<>>, mem |-> mem]
         ELSE [kind |-> "ok", ret |-> c.vlist,
               mem |-> setslice(mem, addr, lastaddr, c.vlist)]

deposit(mem, addr, values) ==
    LET c == deposit_vlist(values, <<>>) IN
    IF c.kind # "ok" THEN [kind |-> c.kind, ret |-> <<>>, mem |-> mem]
    ELSE LET lastaddr == addr + Len(c.vlist) - 1 IN
         IF lastaddr > LastAddr
         THEN [kind |-> "IndexError", ret |-> <<>>, mem |-> mem]
         ELSE [kind |-> "ok", ret |-> c.vlist,
               mem |-> setslice(mem, addr, lastaddr + 1, c.vlist)]

RECURSIVE depword_words(_, _)
depword_words(values, ws) ==
    IF values = <<>> THEN [kind |-> "ok", vlist |-> ws]
    ELSE LET value == Head(values) IN
         IF value.tag = "Integral"
         THEN IF depword_assertvalue(value.v[1])
              THEN depword_words(Tail(values), Append(ws, value.v[1]))
              ELSE [kind |-> "ValueError", vlist |-> <<>>]
         ELSE IF value.tag = "Sequence"
         THEN IF \A k \in 1..Len(value.v) : depword_assertvalue(value.v[k])
              THEN depword_words(Tail(values), ws \o value.v)
              ELSE [kind |-> "ValueError", vlist |-> <<>>]
         ELSE [kind |-> "ValueError", vlist |-> <<>>]

depword_data_lsbfirst(ws) ==
    [k \in 1..(2 * Len(ws)) |->
        IF k % 2 = 1 THEN ws[(k + 1) \div 2] % 256
        ELSE (ws[k \div 2] % 65536) \div 256]

\* MSB first, then LSB, for each word
depword_data(ws) ==
    [k \in 1..(2 * Len(ws)) |->
        IF k % 2 = 1 THEN (ws[(k + 1) \div 2] % 65536) \div 256
        ELSE ws[k \div 2] % 256]

depword(mem, addr, values) ==
    LET c == depword_words(values, <<>>) IN
    IF c.kind # "ok" THEN [kind |-> c.kind, ret |-> <<>>, mem |-> mem]
    ELSE LET data == depword_data(c.vlist)
             d == deposit(mem, addr, <<[tag |-> "Sequence", v |-> data]>>)
         IN  IF d.kind # "ok" THEN d
             ELSE LET bs == bytes(d.mem, addr, Len(c.vlist) * 2) IN
                  [kind |-> bs.kind, ret |-> bs.ret, mem |-> d.mem]

\* ------------------------------------------------------------ the machine
\* The simulated machine: registers, flags and its memory sequence.
Machine(mem) ==
    [a |-> 0, b |-> 0, x |-> 0, pc |-> 0, sp |-> 0,
     H |-> FALSE, I |-> FALSE, N |-> FALSE, Z |-> FALSE, V |-> FALSE,
     C |-> FALSE, mem |-> mem]

NoLast ==
    [op |-> "none", addr |-> 0, n |-> 0, values |-> <<>>,
     kind |-> "ok", ret |-> <<>>]

\* A memory of MemSize cells, all zero but the given ones.
MemOf(f) ==
    [len |-> MemSize,
     cells |-> [j \in {i \in DOMAIN f : f[i] # 0} |-> f[j]]]

\* ------------------------------------------------------- sampled inputs
AddrSamples == {0 - 65537, 0 - 2, 0 - 1, 0, 65534, 65535, 65536, 65537}
DepositAddrSamples == {0 - 1, 0, 65534, 65535, 65536}
ByteLegal == {0, 255}
ByteBad == {0 - 1, 256}
WordLegal == {4660, 65535}
WordBad == {0 - 1, 65536}
EdgeCells == {0, 1, 65534, 65535}
CellSamples == {0, 18, 171}

RECURSIVE SeqsUpTo(_, _)
SeqsUpTo(S, n) ==
    IF n = 0 THEN {<<>>}
    ELSE LET shorter == SeqsUpTo(S, n - 1) IN
         shorter \cup {Append(q, e) : q \in {q \in shorter : Len(q) = n - 1}, e \in S}

Integral(e) == [tag |-> "Integral", v |-> <<e>>]
Sequence(q) == [tag |-> "Sequence", v |-> q]
Other == [tag |-> "other", v |-> <<>>]

\* Argument lists of up to MaxVals numbers, all legal or with one number out
\* of range: the numbers one by one or as one sequence, or with an argument
\* that is neither a number nor a sequence.
ArgLists(Legal, Bad) ==
    LET legal == SeqsUpTo(Legal, MaxVals)
        flats == legal \cup UNION {{[q EXCEPT ![p] = e] : p \in 1..Len(q), e \in Bad} :
                                     q \in legal}
    IN  {[k \in 1..Len(q) |-> Integral(q[k])] : q \in flats}
        \cup {<<Sequence(q)>> : q \in flats}
        \cup {<<Other>>} \cup {<<Integral(e), Other>> : e \in Legal}

\* The numbers of an argument list, flattened in order.
RECURSIVE Flat(_)
Flat(values) ==
    IF values = <<>> THEN <<>> ELSE Head(values).v \o Flat(Tail(values))

HasOther(values) == \E k \in 1..Len(values) : values[k].tag = "other"

\* -------------------------------------------------------------- actions
\* pre is the machine before the last operation, last describes that
\* operation and its outcome, hist holds the same for the earlier ones.
Start(n) ==
    /\ pre = m /\ last = NoLast /\ hist = <<>> /\ steps = 0 /\ limit = n
    /\ OPCODES = <<>> /\ Instructions = <<>> /\ symbols = <<>>

Done ==
    /\ pre' = m
    /\ hist' = Append(hist, [last |-> last, pre |-> pre])
    /\ steps' = steps + 1
    /\ limit' = limit
    /\ UNCHANGED <<OPCODES, Instructions, symbols>>

ByteRead ==
    /\ steps < limit
    /\ \E addr \in AddrSamples :
         LET r == byte(m.mem, addr) IN
         last' = [op |-> "byte", addr |-> addr, n |-> 1, values |-> <<>>,
                  kind |-> r.kind, ret |-> r.ret]
    /\ m' = m /\ Done

BytesRead ==
    /\ steps < limit
    /\ \E addr \in AddrSamples, n \in 0..MaxVals :
         LET r == bytes(m.mem, addr, n) IN
         last' = [op |-> "bytes", addr |-> addr, n |-> n, values |-> <<>>,
                  kind |-> r.kind, ret |-> r.ret]
    /\ m' = m /\ Done

WordRead ==
    /\ steps < limit
    /\ \E addr \in AddrSamples :
         LET r == word(m.mem, addr) IN
         last' = [op |-> "word", addr |-> addr, n |-> 1, values |-> <<>>,
                  kind |-> r.kind, ret |-> r.ret]
    /\ m' = m /\ Done

WordsRead ==
    /\ steps < limit
    /\ \E addr \in AddrSamples, n \in 0..MaxVals :
         LET r == words(m.mem, addr, n) IN
         last' = [op |-> "words", addr |-> addr, n |-> n, values |-> <<>>,
                  kind |-> r.kind, ret |-> r.ret]
    /\ m' = m /\ Done

Deposit ==
    /\ steps < limit
    /\ \E addr \in DepositAddrSamples, values \in ArgLists(ByteLegal, ByteBad) :
         LET r == deposit(m.mem, addr, values) IN
         /\ m' = [m EXCEPT !.mem = r.mem]
         /\ last' = [op |-> "deposit", addr |-> addr, n |-> Len(Flat(values)),
                     values |-> values, kind |-> r.kind, ret |-> r.ret]
    /\ Done

Depword ==
    /\ steps < limit
    /\ \E addr \in DepositAddrSamples, values \in ArgLists(WordLegal, WordBad) :
         LET r == depword(m.mem, addr, values) IN
         /\ m' = [m EXCEPT !.mem = r.mem]
         /\ last' = [op |-> "depword", addr |-> addr, n |-> Len(Flat(values)),
                     values |-> values, kind |-> r.kind, ret |-> r.ret]
    /\ Done

\* ------------------------------------------- reading a 65536-cell store
InitRead ==
    /\ \E f \in [EdgeCells -> CellSamples] : m = Machine(MemOf(f))
    /\ Start(MaxOps)

NextRead == ByteRead \/ BytesRead \/ WordRead \/ WordsRead

SpecRead == InitRead /\ [][NextRead]_vars

\* -------------------------------- reads and deposits by the test harness
InitMem ==
    /\ m = Machine(MemOf([i \in EdgeCells |-> 171 + (i % 4)]))
    /\ Start(MaxOps)

NextMem == ByteRead \/ BytesRead \/ WordRead \/ WordsRead \/ Deposit \/ Depword

SpecMem == InitMem /\ [][NextMem]_vars

\* ================================================ opcode implementations
\* Each implementation takes the machine with the program counter just past
\* the opcode and gives the machine after the instruction.
Bit(v, k) == (v \div (2 ^ k)) % 2 = 1

B2I(f) == IF f THEN 1 ELSE 0

Flags(mc) == <<mc.H, mc.I, mc.N, mc.Z, mc.V, mc.C>>

incbyte(b, addend) == (b + addend) % 256

incword(w, addend) == (w + addend) % 65536

\* Consume a byte at [PC]
readbyte(mc) ==
    [m |-> [mc EXCEPT !.pc = incword(mc.pc, 1)],
     val |-> byte(mc.mem, mc.pc).ret[1]]

readword_lsbfirst(mc) ==
    LET l == readbyte(mc)
        h == readbyte(l.m)
    IN  [m |-> h.m, val |-> h.val * 256 + l.val]

\* Consume a word at [PC]; the PC may wrap between the two bytes
readword(mc) ==
    LET h == readbyte(mc)
        l == readbyte(h.m)
    IN  [m |-> l.m, val |-> h.val * 256 + l.val]

readindex_signed(mc) ==
    LET r == readbyte(mc) IN
    [m |-> r.m, val |-> incword(mc.x, IF r.val >= 128 THEN r.val - 256 ELSE r.val)]

\* Consume an offset byte at [PC] and add it to X
readindex(mc) ==
    LET r == readbyte(mc) IN [m |-> r.m, val |-> incword(mc.x, r.val)]

isneg(b, signbit) == Bit(b, signbit)

iszero(b) == b = 0

logicNZV_keepsV(mc, val, signbit) ==
    [m |-> [mc EXCEPT !.N = isneg(val, signbit), !.Z = iszero(val)],
     val |-> val]

logicNZV(mc, val, signbit) ==
    [m |-> [mc EXCEPT !.N = isneg(val, signbit), !.Z = iszero(val), !.V = FALSE],
     val |-> val]

\* ---- flag changes
tap(mc) ==
    [mc EXCEPT !.H = Bit(mc.a, 5), !.I = Bit(mc.a, 4), !.N = Bit(mc.a, 3),
               !.Z = Bit(mc.a, 2), !.V = Bit(mc.a, 1), !.C = Bit(mc.a, 0)]

tpa_lowbits(mc) ==
    [mc EXCEPT !.a = B2I(mc.H) * 32 + B2I(mc.I) * 16 + B2I(mc.N) * 8
                     + B2I(mc.Z) * 4 + B2I(mc.V) * 2 + B2I(mc.C)]

tpa(mc) ==
    [mc EXCEPT !.a = 192 + B2I(mc.H) * 32 + B2I(mc.I) * 16 + B2I(mc.N) * 8
                     + B2I(mc.Z) * 4 + B2I(mc.V) * 2 + B2I(mc.C)]

\* ---- arithmetic
addHNZVC_overflowcarry(mc, augend, addend) ==
    LET sum == incbyte(augend, addend)
        x7 == Bit(augend, 7)    x3 == Bit(augend, 3)
        m7 == Bit(addend, 7)    m3 == Bit(addend, 3)
        r7 == Bit(sum, 7)       r3 == Bit(sum, 3)
        c == (x7 /\ m7) \/ (m7 /\ ~r7) \/ (~r7 /\ x7)
    IN  [m |-> [mc EXCEPT
                  !.N = isneg(sum, 7),
                  !.Z = iszero(sum),
                  !.C = c,
                  !.H = (x3 /\ m3) \/ (m3 /\ ~r3) \/ (~r3 /\ x3),
                  !.V = c],
         val |-> sum]

addHNZVC_carryand(mc, augend, addend) ==
    LET sum == incbyte(augend, addend)
        x7 == Bit(augend, 7)    x3 == Bit(augend, 3)
        m7 == Bit(addend, 7)    m3 == Bit(addend, 3)
        r7 == Bit(sum, 7)       r3 == Bit(sum, 3)
    IN  [m |-> [mc EXCEPT
                  !.N = isneg(sum, 7),
                  !.Z = iszero(sum),
                  !.C = (x7 /\ m7),
                  !.H = (x3 /\ m3) \/ (m3 /\ ~r3) \/ (~r3 /\ x3),
                  !.V = (x7 /\ m7 /\ ~r7) \/ (~x7 /\ ~m7 /\ r7)],
         val |-> sum]

addHNZVC(mc, augend, addend) ==
    LET sum == incbyte(augend, addend)
        x7 == Bit(augend, 7)    x3 == Bit(augend, 3)
        m7 == Bit(addend, 7)    m3 == Bit(addend, 3)
        r7 == Bit(sum, 7)       r3 == Bit(sum, 3)
    IN  [m |-> [mc EXCEPT
                  !.N = isneg(sum, 7),
                  !.Z = iszero(sum),
                  !.C = (x7 /\ m7) \/ (m7 /\ ~r7) \/ (~r7 /\ x7),
                  !.H = (x3 /\ m3) \/ (m3 /\ ~r3) \/ (~r3 /\ x3),
                  !.V = (x7 /\ m7 /\ ~r7) \/ (~x7 /\ ~m7 /\ r7)],
         val |-> sum]

adda(mc) ==
    LET augend == mc.a
        r == readbyte(mc)
        s == addHNZVC(r.m, augend, r.val)
    IN  [s.m EXCEPT !.a = s.val]

subNZVC_addoverflow(mc, minuend, subtrahend, affectC) ==
    LET difference == incbyte(minuend, 0 - subtrahend)
        x7 == Bit(minuend, 7)
        m7 == Bit(subtrahend, 7)
        r7 == Bit(difference, 7)
    IN  [m |-> [mc EXCEPT
                  !.N = isneg(difference, 7),
                  !.Z = iszero(difference),
                  !.C = IF affectC
                        THEN (~x7 /\ m7) \/ (m7 /\ r7) \/ (r7 /\ ~x7)
                        ELSE mc.C,
                  !.V = (x7 /\ m7 /\ ~r7) \/ (~x7 /\ ~m7 /\ r7)],
         val |-> difference]

subNZVC(mc, minuend, subtrahend, affectC) ==
    LET difference == incbyte(minuend, 0 - subtrahend)
        x7 == Bit(minuend, 7)
        m7 == Bit(subtrahend, 7)
        r7 == Bit(difference, 7)
    IN  [m |-> [mc EXCEPT
                  !.N = isneg(difference, 7),
                  !.Z = iszero(difference),
                  !.C = IF affectC
                        THEN (~x7 /\ m7) \/ (m7 /\ r7) \/ (r7 /\ ~x7)
                        ELSE mc.C,
                  !.V = (x7 /\ ~m7 /\ ~r7) \/ (~x7 /\ m7 /\ r7)],
         val |-> difference]

suba(mc) ==
    LET minuend == mc.a
        r == readbyte(mc)
        s == subNZVC(r.m, minuend, r.val, TRUE)
    IN  [s.m EXCEPT !.a = s.val]

cmpa(mc) ==
    LET minuend == mc.a
        r == readbyte(mc)
    IN  subNZVC(r.m, minuend, r.val, TRUE).m

cpxarg_highfirst(mc, argh, argl) ==
    LET xh == mc.x \div 256
        xl == mc.x % 256
        hi == subNZVC(mc, xh, argh, FALSE)
        Zh == hi.m.Z
        lo == subNZVC(hi.m, xl, argl, FALSE)
    IN  [lo.m EXCEPT !.Z = Zh /\ lo.m.Z]

cpxarg(mc, argh, argl) ==
    LET xh == mc.x \div 256
        xl == mc.x % 256
        lo == subNZVC(mc, xl, argl, FALSE)
        Zl == lo.m.Z
        hi == subNZVC(lo.m, xh, argh, FALSE)
    IN  [hi.m EXCEPT !.Z = Zl /\ hi.m.Z]

cpx(mc) ==
    LET h == readbyte(mc)
        l == readbyte(h.m)
    IN  cpxarg(l.m, h.val, l.val)

cpxz(mc) ==
    LET t == readbyte(mc)
        argh == getitem(t.m.mem, t.val).val
        argl == getitem(t.m.mem, incword(t.val, 1)).val
    IN  cpxarg(t.m, argh, argl)

cpxm(mc) ==
    LET t == readword(mc)
        argh == getitem(t.m.mem, t.val).val
        argl == getitem(t.m.mem, incword(t.val, 1)).val
    IN  cpxarg(t.m, argh, argl)

\* ---- Python's bitwise operators on non-negative integers
RECURSIVE bitand(_, _)
bitand(p, q) ==
    IF p = 0 \/ q = 0 THEN 0
    ELSE (p % 2) * (q % 2) + 2 * bitand(p \div 2, q \div 2)

RECURSIVE bitor(_, _)
bitor(p, q) ==
    IF p = 0 THEN q
    ELSE IF q = 0 THEN p
    ELSE Max(p % 2, q % 2) + 2 * bitor(p \div 2, q \div 2)

\* ---- invalid opcode
\* The exception raised for an opcode without an implementation; the PC
\* is already past the opcode byte.
invalid_movessp(mc) ==
    [m |-> [mc EXCEPT !.sp = incword(mc.sp, 0 - 1)],
     opcode |-> getitem(mc.mem, incword(mc.pc, 0 - 1)).val, pc |-> mc.pc - 1]

\* m: the machine as the raise leaves it
invalid(mc) ==
    [m |-> mc,
     opcode |-> getitem(mc.mem, incword(mc.pc, 0 - 1)).val, pc |-> mc.pc - 1]

nop(mc) == mc

\* ---- relative operands
readsignedbyte_unsigned(mc) ==
    [m |-> [mc EXCEPT !.pc = incword(mc.pc, 1)],
     val |-> bytes(mc.mem, mc.pc, 1).ret[1]]

\* Consume a signed byte at [PC] (struct format 'b': two's complement)
readsignedbyte(mc) ==
    LET raw == bytes(mc.mem, mc.pc, 1).ret[1] IN
    [m |-> [mc EXCEPT !.pc = incword(mc.pc, 1)],
     val |-> IF raw >= 128 THEN raw - 256 ELSE raw]

\* Consume a signed offset at [PC]; the target is relative to the PC after it
readreloff(mc) ==
    LET r == readsignedbyte(mc) IN [m |-> r.m, val |-> incword(r.m.pc, r.val)]

\* ---- branches
jmp(mc) == LET t == readword(mc) IN [t.m EXCEPT !.pc = t.val]
jmpx(mc) == LET t == readindex(mc) IN [t.m EXCEPT !.pc = t.val]

branchif(mc, predicate) ==
    LET t == readreloff(mc) IN
    IF predicate THEN [t.m EXCEPT !.pc = t.val] ELSE t.m

bra(mc) == branchif(mc, TRUE)
bcc(mc) == branchif(mc, ~mc.C)
bcs(mc) == branchif(mc, mc.C)
bvc(mc) == branchif(mc, ~mc.V)
bvs(mc) == branchif(mc, mc.V)
beq(mc) == branchif(mc, mc.Z)
bne(mc) == branchif(mc, ~mc.Z)
bmi(mc) == branchif(mc, mc.N)
bpl(mc) == branchif(mc, ~mc.N)

\* ---- stack
popbyte_postincrement(mc) ==
    [m |-> [mc EXCEPT !.sp = incword(mc.sp, 1)], val |-> byte(mc.mem, mc.sp).ret[1]]

\* Pre-increment the SP, then read the byte it addresses
popbyte(mc) ==
    LET sp == incword(mc.sp, 1) IN
    [m |-> [mc EXCEPT !.sp = sp], val |-> byte(mc.mem, sp).ret[1]]

popword_lsbfirst(mc) ==
    LET lsb == popbyte(mc)
        msb == popbyte(lsb.m)
    IN  [m |-> msb.m, val |-> msb.val * 256 + lsb.val]

\* Pop a word: MSB first, then LSB
popword(mc) ==
    LET msb == popbyte(mc)
        lsb == popbyte(msb.m)
    IN  [m |-> lsb.m, val |-> msb.val * 256 + lsb.val]

pushbyte_predecrement(mc, b) ==
    LET sp == incword(mc.sp, 0 - 1) IN
    [mc EXCEPT !.mem = deposit(mc.mem, sp, <<Integral(b)>>).mem, !.sp = sp]

pushbyte_nowrap(mc, b) ==
    [mc EXCEPT !.mem = deposit(mc.mem, mc.sp, <<Integral(b)>>).mem,
               !.sp = mc.sp - 1]

\* Deposit the byte at [SP], then post-decrement the SP
pushbyte(mc, b) ==
    [mc EXCEPT !.mem = deposit(mc.mem, mc.sp, <<Integral(b)>>).mem,
               !.sp = incword(mc.sp, 0 - 1)]

pushword_msbfirst(mc, w) == pushbyte(pushbyte(mc, w \div 256), w % 256)

\* Push a word: LSB followed by MSB
pushword(mc, w) == pushbyte(pushbyte(mc, w % 256), w \div 256)

jsr(mc) == LET t == readword(mc) IN [pushword(t.m, t.m.pc) EXCEPT !.pc = t.val]
jsrx(mc) == LET t == readindex(mc) IN [pushword(t.m, t.m.pc) EXCEPT !.pc = t.val]
bsr(mc) == LET t == readreloff(mc) IN [pushword(t.m, t.m.pc) EXCEPT !.pc = t.val]
rts(mc) == LET t == popword(mc) IN [t.m EXCEPT !.pc = t.val]

pula(mc) == LET t == popbyte(mc) IN [t.m EXCEPT !.a = t.val]
psha(mc) == pushbyte(mc, mc.a)

\* ---- data movement
ldaa(mc) ==
    LET r == readbyte(mc)
        t == logicNZV(r.m, r.val, 7)
    IN  [t.m EXCEPT !.a = t.val]

ldab(mc) ==
    LET r == readbyte(mc)
        t == logicNZV(r.m, r.val, 7)
    IN  [t.m EXCEPT !.b = t.val]

ldaaz(mc) ==
    LET r == readbyte(mc)
        t == logicNZV(r.m, getitem(r.m.mem, r.val).val, 7)
    IN  [t.m EXCEPT !.a = t.val]

ldabz(mc) ==
    LET r == readbyte(mc)
        t == logicNZV(r.m, getitem(r.m.mem, r.val).val, 7)
    IN  [t.m EXCEPT !.b = t.val]

ldaam(mc) ==
    LET r == readword(mc)
        t == logicNZV(r.m, getitem(r.m.mem, r.val).val, 7)
    IN  [t.m EXCEPT !.a = t.val]

ldabm(mc) ==
    LET r == readword(mc)
        t == logicNZV(r.m, getitem(r.m.mem, r.val).val, 7)
    IN  [t.m EXCEPT !.b = t.val]

ldaax(mc) ==
    LET r == readindex(mc)
        t == logicNZV(r.m, getitem(r.m.mem, r.val).val, 7)
    IN  [t.m EXCEPT !.a = t.val]

ldabx(mc) ==
    LET r == readindex(mc)
        t == logicNZV(r.m, getitem(r.m.mem, r.val).val, 7)
    IN  [t.m EXCEPT !.b = t.val]

ldx(mc) ==
    LET r == readword(mc)
        t == logicNZV(r.m, r.val, 15)
    IN  [t.m EXCEPT !.x = t.val]

ldxtarget(mc, loc0) ==
    LET loc1 == incword(loc0, 1)
        val == getitem(mc.mem, loc0).val * 256 + getitem(mc.mem, loc1).val
        t == logicNZV(mc, val, 15)
    IN  [t.m EXCEPT !.x = t.val]

ldxz(mc) == LET r == readbyte(mc) IN ldxtarget(r.m, r.val)
ldxm(mc) == LET r == readword(mc) IN ldxtarget(r.m, r.val)
ldxx(mc) == LET r == readindex(mc) IN ldxtarget(r.m, r.val)

clra(mc) == LET t == logicNZV(mc, 0, 7) IN [t.m EXCEPT !.a = t.val, !.C = FALSE]
clrb(mc) == LET t == logicNZV(mc, 0, 7) IN [t.m EXCEPT !.b = t.val, !.C = FALSE]

\* The value is computed first, then the target address is read
clrm(mc) ==
    LET t == logicNZV(mc, 0, 7)
        r == readword(t.m)
    IN  [r.m EXCEPT !.mem = setitem(r.m.mem, r.val, t.val), !.C = FALSE]

clrx(mc) ==
    LET t == logicNZV(mc, 0, 7)
        r == readindex(t.m)
    IN  [r.m EXCEPT !.mem = setitem(r.m.mem, r.val, t.val), !.C = FALSE]

staam(mc) ==
    LET t == logicNZV(mc, mc.a, 7)
        r == readword(t.m)
    IN  [r.m EXCEPT !.mem = setitem(r.m.mem, r.val, t.val)]

stabm(mc) ==
    LET t == logicNZV(mc, mc.b, 7)
        r == readword(t.m)
    IN  [r.m EXCEPT !.mem = setitem(r.m.mem, r.val, t.val)]

staax(mc) ==
    LET t == logicNZV(mc, mc.a, 7)
        r == readindex(t.m)
    IN  [r.m EXCEPT !.mem = setitem(r.m.mem, r.val, t.val)]

stabx(mc) ==
    LET t == logicNZV(mc, mc.b, 7)
        r == readindex(t.m)
    IN  [r.m EXCEPT !.mem = setitem(r.m.mem, r.val, t.val)]

stxtarget(mc, target0) ==
    LET target1 == incword(target0, 1)
        mem0 == setitem(mc.mem, target0, mc.x \div 256)
        mem1 == setitem(mem0, target1, mc.x % 256)
    IN  [mc EXCEPT !.mem = mem1, !.N = isneg(mc.x, 15), !.Z = iszero(mc.x),
                   !.V = FALSE]

stxz(mc) == LET r == readbyte(mc) IN stxtarget(r.m, r.val)
stxm(mc) == LET r == readword(mc) IN stxtarget(r.m, r.val)

\* ---- logic
anda(mc) ==
    LET r == readbyte(mc)
        t == logicNZV(r.m, bitand(mc.a, r.val), 7)
    IN  [t.m EXCEPT !.a = t.val]

\* ---- shifts and rotates
shiftflags(mc, newC, val) ==
    [m |-> [mc EXCEPT !.Z = iszero(val), !.N = isneg(val, 7), !.C = (newC # 0),
                      !.V = (isneg(val, 7) # (newC # 0))],
     val |-> val]

asla(mc) ==
    LET t == shiftflags(mc, bitand(mc.a, 128), bitand(mc.a * 2, 255))
    IN  [t.m EXCEPT !.a = t.val]

rola(mc) ==
    LET t == shiftflags(mc, bitand(mc.a, 128),
                        bitor(bitand(mc.a * 2, 255), B2I(mc.C)))
    IN  [t.m EXCEPT !.a = t.val]

lsra(mc) ==
    LET t == shiftflags(mc, bitand(mc.a, 1), mc.a \div 2)
    IN  [t.m EXCEPT !.a = t.val]

asra(mc) ==
    LET t == shiftflags(mc, bitand(mc.a, 1), bitor(mc.a \div 2, bitand(mc.a, 128)))
    IN  [t.m EXCEPT !.a = t.val]

rora_dropcarry(mc) ==
    LET t == shiftflags(mc, bitand(mc.a, 1), mc.a \div 2)
    IN  [t.m EXCEPT !.a = t.val]

rora(mc) ==
    LET t == shiftflags(mc, bitand(mc.a, 1), bitor(mc.a \div 2, B2I(mc.C) * 128))
    IN  [t.m EXCEPT !.a = t.val]

\* ---- increments and decrements
decb(mc) ==
    LET b7 == bitand(mc.b, 128)
        nb == incbyte(mc.b, 0 - 1)
    IN  [mc EXCEPT !.b = nb, !.N = isneg(nb, 7), !.Z = iszero(nb),
                   !.V = (b7 # bitand(nb, 128))]

inx(mc) == LET nx == incword(mc.x, 1) IN [mc EXCEPT !.x = nx, !.Z = iszero(nx)]
dex(mc) == LET nx == incword(mc.x, 0 - 1) IN [mc EXCEPT !.x = nx, !.Z = iszero(nx)]

\* ---- calling an implementation by its name
call(f, mc) ==
    CASE f = "nop" -> nop(mc)
      [] f = "jmp" -> jmp(mc)
      [] f = "jmpx" -> jmpx(mc)
      [] f = "bra" -> bra(mc)
      [] f = "bcc" -> bcc(mc)
      [] f = "bcs" -> bcs(mc)
      [] f = "bvc" -> bvc(mc)
      [] f = "bvs" -> bvs(mc)
      [] f = "beq" -> beq(mc)
      [] f = "bne" -> bne(mc)
      [] f = "bmi" -> bmi(mc)
      [] f = "bpl" -> bpl(mc)
      [] f = "jsr" -> jsr(mc)
      [] f = "jsrx" -> jsrx(mc)
      [] f = "bsr" -> bsr(mc)
      [] f = "rts" -> rts(mc)
      [] f = "pula" -> pula(mc)
      [] f = "psha" -> psha(mc)
      [] f = "tap" -> tap(mc)
      [] f = "tpa" -> tpa(mc)
      [] f = "ldaa" -> ldaa(mc)
      [] f = "ldab" -> ldab(mc)
      [] f = "ldaaz" -> ldaaz(mc)
      [] f = "ldabz" -> ldabz(mc)
      [] f = "ldaam" -> ldaam(mc)
      [] f = "ldabm" -> ldabm(mc)
      [] f = "ldaax" -> ldaax(mc)
      [] f = "ldabx" -> ldabx(mc)
      [] f = "ldx" -> ldx(mc)
      [] f = "ldxz" -> ldxz(mc)
      [] f = "ldxm" -> ldxm(mc)
      [] f = "ldxx" -> ldxx(mc)
      [] f = "clra" -> clra(mc)
      [] f = "clrb" -> clrb(mc)
      [] f = "clrm" -> clrm(mc)
      [] f = "clrx" -> clrx(mc)
      [] f = "staam" -> staam(mc)
      [] f = "stabm" -> stabm(mc)
      [] f = "staax" -> staax(mc)
      [] f = "stabx" -> stabx(mc)
      [] f = "stxz" -> stxz(mc)
      [] f = "stxm" -> stxm(mc)
      [] f = "anda" -> anda(mc)
      [] f = "asla" -> asla(mc)
      [] f = "rola" -> rola(mc)
      [] f = "lsra" -> lsra(mc)
      [] f = "asra" -> asra(mc)
      [] f = "rora" -> rora(mc)
      [] f = "decb" -> decb(mc)
      [] f = "inx" -> inx(mc)
      [] f = "dex" -> dex(mc)
      [] f = "adda" -> adda(mc)
      [] f = "suba" -> suba(mc)
      [] f = "cmpa" -> cmpa(mc)
      [] f = "cpx" -> cpx(mc)
      [] f = "cpxz" -> cpxz(mc)
      [] f = "cpxm" -> cpxm(mc)

\* ---------------------------------------------- instruction actions
\* One instruction implementation called on the machine.
Instr(name, after) ==
    /\ steps < limit
    /\ m' = after
    /\ last' = [op |-> name, addr |-> m.pc, n |-> 0, values |-> <<>>,
                kind |-> "ok", ret |-> <<>>]
    /\ Done

Tap == Instr("tap", tap(m))
Tpa == Instr("tpa", tpa(m))
Adda == Instr("adda", adda(m))
Suba == Instr("suba", suba(m))
Cmpa == Instr("cmpa", cmpa(m))
Cpx == Instr("cpx", cpx(m))
Cpxz == Instr("cpxz", cpxz(m))
Cpxm == Instr("cpxm", cpxm(m))

Nop == Instr("nop", nop(m))
Jmp == Instr("jmp", jmp(m))
Jmpx == Instr("jmpx", jmpx(m))
Bra == Instr("bra", bra(m))
Bcc == Instr("bcc", bcc(m))
Bcs == Instr("bcs", bcs(m))
Bvc == Instr("bvc", bvc(m))
Bvs == Instr("bvs", bvs(m))
Beq == Instr("beq", beq(m))
Bne == Instr("bne", bne(m))
Bmi == Instr("bmi", bmi(m))
Bpl == Instr("bpl", bpl(m))
Jsr == Instr("jsr", jsr(m))
Jsrx == Instr("jsrx", jsrx(m))
Bsr == Instr("bsr", bsr(m))
Rts == Instr("rts", rts(m))
Pula == Instr("pula", pula(m))
Psha == Instr("psha", psha(m))
Ldaa == Instr("ldaa", ldaa(m))
Ldab == Instr("ldab", ldab(m))
Ldaaz == Instr("ldaaz", ldaaz(m))
Ldabz == Instr("ldabz", ldabz(m))
Ldaam == Instr("ldaam", ldaam(m))
Ldabm == Instr("ldabm", ldabm(m))
Ldaax == Instr("ldaax", ldaax(m))
Ldabx == Instr("ldabx", ldabx(m))
Ldx == Instr("ldx", ldx(m))
Ldxz == Instr("ldxz", ldxz(m))
Ldxm == Instr("ldxm", ldxm(m))
Ldxx == Instr("ldxx", ldxx(m))
Clra == Instr("clra", clra(m))
Clrb == Instr("clrb", clrb(m))
Clrm == Instr("clrm", clrm(m))
Clrx == Instr("clrx", clrx(m))
Staam == Instr("staam", staam(m))
Stabm == Instr("stabm", stabm(m))
Staax == Instr("staax", staax(m))
Stabx == Instr("stabx", stabx(m))
Stxz == Instr("stxz", stxz(m))
Stxm == Instr("stxm", stxm(m))
Anda == Instr("anda", anda(m))
Asla == Instr("asla", asla(m))
Rola == Instr("rola", rola(m))
Lsra == Instr("lsra", lsra(m))
Asra == Instr("asra", asra(m))
Rora == Instr("rora", rora(m))
Decb == Instr("decb", decb(m))
Inx == Instr("inx", inx(m))
Dex == Instr("dex", dex(m))

\* An opcode without an implementation: the exception leaves the machine
\* as it is and carries the opcode and the PC.
Invalid ==
    /\ steps < limit
    /\ LET e == invalid(m) IN
         /\ m' = e.m
         /\ last' = [op |-> "invalid", addr |-> m.pc, n |-> 0,
                     values |-> <<>>, kind |-> "InvalidOpcode",
                     ret |-> <<e.opcode, e.pc>>]
    /\ Done

AllFlags(mc, f) ==
    [mc EXCEPT !.H = f, !.I = f, !.N = f, !.Z = f, !.V = f, !.C = f]

\* ---- 8-bit arithmetic on A with an immediate operand, all 256 x 256 pairs
InitArith ==
    /\ \E x \in 0..255, opnd \in 0..255, f \in BOOLEAN :
         m = [AllFlags([Machine(MemOf(256 :> opnd)) EXCEPT !.a = x, !.pc = 256], f)
                EXCEPT !.H = ~f]
    /\ Start(MaxOps)

NextArith == Adda \/ Suba \/ Cmpa

SpecArith == InitArith /\ [][NextArith]_vars

\* ---- 16-bit compare of X with an immediate, direct or extended operand
PcSamples == {256, 65535}
OperandSamples == {0, 1, 127, 128, 255}

InitCpx ==
    /\ \E xh \in OperandSamples, xl \in OperandSamples,
          p0 \in OperandSamples, p1 \in OperandSamples,
          dh \in OperandSamples, dl \in OperandSamples,
          pc0 \in PcSamples, f \in BOOLEAN :
         LET pc1 == incword(pc0, 1)
             t == p0 * 256 + p1
             dom == {pc0, pc1, p0, incword(p0, 1), t, incword(t, 1)}
             cells == [i \in dom |->
                         IF i = pc0 THEN p0
                         ELSE IF i = pc1 THEN p1
                         ELSE IF i \in {p0, t} THEN dh
                         ELSE dl]
         IN  m = AllFlags([Machine(MemOf(cells)) EXCEPT
                             !.x = xh * 256 + xl, !.pc = pc0], f)
    /\ Start(MaxOps)

NextCpx == Cpx \/ Cpxz \/ Cpxm

SpecCpx == InitCpx /\ [][NextCpx]_vars

\* ---- transfers between A and the flags, every A and flag combination
InitFlags ==
    /\ \E x \in 0..255, fl \in [{"H", "I", "N", "Z", "V", "C"} -> BOOLEAN] :
         m = [Machine(MemOf(<<>>)) EXCEPT
                !.a = x, !.H = fl["H"], !.I = fl["I"], !.N = fl["N"],
                !.Z = fl["Z"], !.V = fl["V"], !.C = fl["C"]]
    /\ Start(MaxSteps)

NextFlags == Tap \/ Tpa

SpecFlags == InitFlags /\ [][NextFlags]_vars

\* ---- relative branches: opcode at P, the call starts with PC = P + 1
BranchPcSamples == {0, 1, 256, 65534, 65535}
OffsetSamples == {0, 1, 2, 126, 127, 128, 129, 253, 254, 255}

InitBranch ==
    /\ \E pc0 \in BranchPcSamples, off \in OffsetSamples,
          fl \in [{"N", "Z", "V", "C"} -> BOOLEAN] :
         m = [Machine(MemOf(pc0 :> off)) EXCEPT
                !.pc = pc0, !.N = fl["N"], !.Z = fl["Z"], !.V = fl["V"],
                !.C = fl["C"]]
    /\ Start(MaxOps)

NextBranch == Bra \/ Bcc \/ Bcs \/ Bvc \/ Bvs \/ Beq \/ Bne \/ Bmi \/ Bpl

SpecBranch == InitBranch /\ [][NextBranch]_vars

\* ---- subroutine calls and the stack, also where PC and SP wrap
StackPcSamples == {256, 65534, 65535}
SpSamples == {0, 1, 511, 65535}
StackOperandSamples == {0, 18, 254, 255}

InitStack ==
    /\ \E pc0 \in StackPcSamples, sp0 \in SpSamples, a0 \in {90, 255},
          x0 \in {0, 65535}, o0 \in StackOperandSamples,
          o1 \in StackOperandSamples, f \in BOOLEAN :
         LET pc1 == incword(pc0, 1)
             cells == [i \in {pc0, pc1} |-> IF i = pc0 THEN o0 ELSE o1]
         IN  m = AllFlags([Machine(MemOf(cells)) EXCEPT
                             !.a = a0, !.b = 255 - a0, !.x = x0, !.pc = pc0,
                             !.sp = sp0], f)
    /\ Start(MaxSteps)

NextStack == Jsr \/ Jsrx \/ Bsr \/ Rts \/ Psha \/ Pula

SpecStack == InitStack /\ [][NextStack]_vars

\* ---- an opcode byte without an implementation, fetched from P = PC - 1
InvalidPcSamples == {0, 1, 256, 65535}
InvalidOpcodeSamples == {0, 2, 255}

InitInvalid ==
    /\ \E pc0 \in InvalidPcSamples, opc \in InvalidOpcodeSamples,
          a0 \in {0, 90, 255}, sp0 \in {0, 511}, f \in BOOLEAN :
         m = AllFlags([Machine(MemOf(incword(pc0, 0 - 1) :> opc)) EXCEPT
                         !.a = a0, !.pc = pc0, !.sp = sp0], f)
    /\ Start(MaxOps)

NextInvalid == Invalid

SpecInvalid == InitInvalid /\ [][NextInvalid]_vars

\* ---- Python's dict: a key keeps the place of its first insertion and the
\* value of its last one
haskey(d, k) == \E i \in 1..Len(d) : d[i].key = k

dictset(d, k, v) ==
    IF haskey(d, k)
    THEN [i \in 1..Len(d) |-> IF d[i].key = k THEN [key |-> k, val |-> v] ELSE d[i]]
    ELSE Append(d, [key |-> k, val |-> v])

RECURSIVE dictof(_)
dictof(items) ==
    IF items = <<>> THEN <<>>
    ELSE LET n == Len(items) IN
         dictset(dictof(SubSeq(items, 1, n - 1)), items[n].key, items[n].val)

\* ---- the opcode table
\* OPCODES = { opcode: (mnemonic, f), ... }
OPCODES_display(items) ==
    dictof([i \in 1..Len(items) |->
              [key |-> items[i][1], val |-> <<items[i][2], items[i][3]>>]])

\* for opcode, (mnemonic, f) in OPCODES.items(): setattr(Instructions, ...)
Instructions_setattr(opcodes) ==
    dictof([i \in 1..Len(opcodes) |->
              [key |-> opcodes[i].val[1], val |-> opcodes[i].key]])

TableOpcodes == {1, 32}
TableMnemonics == {"NOP", "BRA"}
TableImpls == {"nop", "bra"}
TableItems == TableOpcodes \X TableMnemonics \X TableImpls

\* The module is initialised once: the table is built, then the constants.
LoadOpcodes ==
    /\ steps < limit
    /\ last.op = "none"
    /\ \E items \in SeqsUpTo(TableItems, MaxEntries) :
         /\ OPCODES' = OPCODES_display(items)
         /\ Instructions' = Instructions_setattr(OPCODES_display(items))
         /\ last' = [op |-> "opcodes", addr |-> 0, n |-> Len(items),
                     values |-> items, kind |-> "ok", ret |-> <<>>]
    /\ m' = m
    /\ pre' = m
    /\ hist' = Append(hist, [last |-> last, pre |-> pre])
    /\ steps' = steps + 1
    /\ limit' = limit
    /\ symbols' = symbols

InitTable ==
    /\ m = Machine(MemOf(<<>>))
    /\ Start(MaxOps)

NextTable == LoadOpcodes

SpecTable == InitTable /\ [][NextTable]_vars

\* ---- the symbol table
Symbol(name, value, section) == [name |-> name, value |-> value, section |-> section]

SymTab_init_firstwins(syms) ==
    dictof([i \in 1..Len(syms) |->
              LET first == CHOOSE j \in 1..Len(syms) :
                             /\ syms[j].name = syms[i].name
                             /\ \A k \in 1..(j - 1) : syms[k].name # syms[i].name
              IN  [key |-> syms[i].name, val |-> syms[first]]])

\* self.symbols = { s.name: s for s in symbols }
SymTab_init(syms) ==
    dictof([i \in 1..Len(syms) |-> [key |-> syms[i].name, val |-> syms[i]]])

\* self.symbols[name]
sym(d, name) ==
    LET hits == {i \in 1..Len(d) : d[i].key = name} IN
    IF hits = {} THEN [kind |-> "KeyError", ret |-> <<>>]
    ELSE [kind |-> "ok", ret |-> <<d[CHOOSE i \in hits : TRUE].val>>]

SymTab_len(d) == Len(d)

SymTab_getitem(d, key) ==
    LET r == sym(d, key) IN
    IF r.kind = "ok" THEN [kind |-> "ok", ret |-> <<r.ret[1].value>>] ELSE r

\* Attributes the object has without __getattr__ being called
ExistingAttributes == {"symbols", "sym", "Symbol"}

\* An attribute read reaches __getattr__ only for a name that is not an
\* attribute already; such a read yields that attribute, not a symbol.
SymTab_getattr(d, name) ==
    IF name \in ExistingAttributes THEN [kind |-> "attribute", ret |-> <<>>]
    ELSE IF haskey(d, name) THEN SymTab_getitem(d, name)
    ELSE [kind |-> "AttributeError", ret |-> <<>>]

SymTab_iter_withsection(d) ==
    [i \in 1..Len(d) |-> <<d[i].val.name, d[i].val.value, d[i].val.section>>]

SymTab_iter(d) == [i \in 1..Len(d) |-> <<d[i].val.name, d[i].val.value>>]

SymbolSamples ==
    {Symbol(n, v, IF v = 1 THEN "text" ELSE "None") : n \in {"a", "b", "sym"}, v \in {1, 2}}

NameSamples == {"a", "b", "sym", "zz"}

\* A table is constructed once and only read afterwards.
SymTabNew ==
    /\ steps < limit
    /\ last.op = "none"
    /\ \E syms \in SeqsUpTo(SymbolSamples, MaxSyms) :
         /\ symbols' = SymTab_init(syms)
         /\ last' = [op |-> "SymTab", addr |-> 0, n |-> Len(syms),
                     values |-> syms, kind |-> "ok", ret |-> <<>>]
    /\ m' = m
    /\ pre' = m
    /\ hist' = Append(hist, [last |-> last, pre |-> pre])
    /\ steps' = steps + 1
    /\ limit' = limit
    /\ UNCHANGED <<OPCODES, Instructions>>

SymLookup(name, r, arg) ==
    /\ steps < limit
    /\ last' = [op |-> name, addr |-> 0, n |-> 0, values |-> arg,
                kind |-> r.kind, ret |-> r.ret]
    /\ m' = m /\ Done

SymTabSym == \E name \in NameSamples : SymLookup("sym", sym(symbols, name), <<name>>)

SymTabGetItem ==
    \E name \in NameSamples :
        SymLookup("getitem", SymTab_getitem(symbols, name), <<name>>)

SymTabGetAttr ==
    \E name \in NameSamples :
        SymLookup("getattr", SymTab_getattr(symbols, name), <<name>>)

SymTabLen == SymLookup("len", [kind |-> "ok", ret |-> <<SymTab_len(symbols)>>], <<>>)

SymTabIter == SymLookup("iter", [kind |-> "ok", ret |-> SymTab_iter(symbols)], <<>>)

InitSym ==
    /\ m = Machine(MemOf(<<>>))
    /\ Start(MaxSteps)

NextSym ==
    SymTabNew \/ SymTabSym \/ SymTabGetItem \/ SymTabGetAttr \/ SymTabLen \/ SymTabIter

SpecSym == InitSym /\ [][NextSym]_vars

\* ---- shifts and rotates of A, every A and incoming carry
InitShift ==
    /\ \E a0 \in 0..255, c \in BOOLEAN, f \in BOOLEAN :
         m = [AllFlags([Machine(MemOf(<<>>)) EXCEPT !.a = a0, !.pc = 256], f)
                EXCEPT !.C = c]
    /\ Start(MaxOps)

NextShift == Asla \/ Rola \/ Lsra \/ Asra \/ Rora

SpecShift == InitShift /\ [][NextShift]_vars

\* ---- every instruction implementation, from registers and cells in range
RegSamples == {<<0, 255>>, <<128, 1>>, <<255, 128>>}
IndexSamples == {0, 65535}
SpecSpSamples == {0, 511, 65535}
OperandPairs == {<<0, 0>>, <<255, 255>>, <<18, 254>>, <<128, 1>>}

InitSpec ==
    /\ \E pc0 \in PcSamples, sp0 \in SpecSpSamples, ab \in RegSamples,
          x0 \in IndexSamples, o \in OperandPairs, f \in BOOLEAN :
         LET pc1 == incword(pc0, 1)
             cells == [i \in EdgeCells \cup {pc0, pc1} |->
                         IF i = pc0 THEN o[1]
                         ELSE IF i = pc1 THEN o[2]
                         ELSE 171 + (i % 4)]
         IN  m = AllFlags([Machine(MemOf(cells)) EXCEPT
                             !.a = ab[1], !.b = ab[2], !.x = x0, !.pc = pc0,
                             !.sp = sp0], f)
    /\ Start(MaxOps)

Next ==
    \/ Nop \/ Jmp \/ Jmpx
    \/ Bra \/ Bcc \/ Bcs \/ Bvc \/ Bvs \/ Beq \/ Bne \/ Bmi \/ Bpl
    \/ Jsr \/ Jsrx \/ Bsr \/ Rts \/ Pula \/ Psha
    \/ Tap \/ Tpa
    \/ Ldaa \/ Ldab \/ Ldaaz \/ Ldabz \/ Ldaam \/ Ldabm \/ Ldaax \/ Ldabx
    \/ Ldx \/ Ldxz \/ Ldxm \/ Ldxx
    \/ Clra \/ Clrb \/ Clrm \/ Clrx
    \/ Staam \/ Stabm \/ Staax \/ Stabx \/ Stxz \/ Stxm
    \/ Anda \/ Asla \/ Rola \/ Lsra \/ Asra \/ Rora
    \/ Decb \/ Inx \/ Dex
    \/ Adda \/ Suba \/ Cmpa \/ Cpx \/ Cpxz \/ Cpxm

Spec == InitSpec /\ [][Next]_vars

\* ---- every implementation, from fewer machines: two machines are compared
InitDet ==
    /\ \E pc0 \in PcSamples, sp0 \in {0, 511}, x0 \in IndexSamples,
          o \in OperandPairs, f \in BOOLEAN :
         LET pc1 == incword(pc0, 1)
             cells == [i \in EdgeCells \cup {pc0, pc1} |->
                         IF i = pc0 THEN o[1]
                         ELSE IF i = pc1 THEN o[2]
                         ELSE 171 + (i % 4)]
         IN  m = AllFlags([Machine(MemOf(cells)) EXCEPT
                             !.a = 128, !.b = 1, !.x = x0, !.pc = pc0,
                             !.sp = sp0], f)
    /\ Start(MaxOps)

SpecDet == InitDet /\ [][Next]_vars

\* ---- the opcode table as written, and its use by the driver
dictget(d, k) == d[CHOOSE i \in 1..Len(d) : d[i].key = k].val

\* The items of the OPCODES display, in source order; the third component
\* is the name the display gives as implementation (nop: the lambda)
OpcodeItems ==
    << <<1, "NOP", "nop">>, <<32, "BRA", "bra">>, <<43, "BMI", "bmi">>,
       <<50, "PULA", "pula">>, <<54, "PSHA", "psha">>, <<57, "RTS", "rts">>,
       <<68, "LSRA", "lsra">>, <<110, "JMPx", "jmpx">>, <<126, "JMP", "jmp">>,
       <<128, "SUBA", "suba">>, <<129, "CMPA", "cmpa">>, <<132, "ANDA", "anda">>,
       <<134, "LDAA", "ldaa">>, <<182, "LDAAm", "ldaam">>, <<141, "BSR", "bsr">>,
       <<139, "ADDA", "adda">>, <<173, "JSRx", "jsrx">>, <<183, "STAAm", "staa_m">>,
       <<189, "JSR", "jsr">>, <<206, "LDX", "ldx">> >>

\* The names opcodes.py can use: what opimpl.py defines, and the lambda
BoundNames ==
    {"nop", "jmp", "jmpx", "bra", "bcc", "bcs", "bvc", "bvs", "beq", "bne",
     "bmi", "bpl", "jsr", "jsrx", "bsr", "rts", "pula", "psha", "tap", "tpa",
     "ldaa", "ldab", "ldaaz", "ldabz", "ldaam", "ldabm", "ldaax", "ldabx",
     "ldx", "ldxz", "ldxm", "ldxx", "clra", "clrb", "clrm", "clrx", "staam",
     "stabm", "staax", "stabx", "stxz", "stxm", "anda", "asla", "rola",
     "lsra", "asra", "rora", "decb", "inx", "dex", "adda", "suba", "cmpa",
     "cpx", "cpxz", "cpxm"}

\* Importing opcodes.py evaluates the display: a name that is not bound
\* raises NameError and leaves OPCODES and Instructions undefined.
ImportOpcodes ==
    /\ steps < limit
    /\ last.op = "none"
    /\ LET bound == \A i \in 1..Len(OpcodeItems) : OpcodeItems[i][3] \in BoundNames
           table == OPCODES_display(OpcodeItems)
       IN  /\ OPCODES' = IF bound THEN table ELSE OPCODES
           /\ Instructions' = IF bound THEN Instructions_setattr(table)
                               ELSE Instructions
           /\ last' = [op |-> "import", addr |-> 0, n |-> Len(OpcodeItems),
                       values |-> <<>>,
                       kind |-> IF bound THEN "ok" ELSE "NameError",
                       ret |-> <<>>]
    /\ m' = m
    /\ pre' = m
    /\ hist' = Append(hist, [last |-> last, pre |-> pre])
    /\ steps' = steps + 1
    /\ limit' = limit
    /\ symbols' = symbols

\* How the import of opcodes.py ended (the first operation)
ImportStatus == IF last.op = "import" THEN last.kind ELSE hist[2].last.kind

\* One step of the driver: fetch the opcode byte at the PC, look it up in
\* OPCODES and call the implementation.  Without the table there is nothing
\* to look up and the failure of the import is all there is.
Dispatch ==
    /\ steps < limit
    /\ last.op # "none"
    /\ LET f == readbyte(m)
           rec(kind, ret) ==
               [op |-> "dispatch", addr |-> m.pc, n |-> f.val, values |-> <<>>,
                kind |-> kind, ret |-> ret]
       IN  IF ImportStatus # "ok"
           THEN m' = m /\ last' = rec(ImportStatus, <<>>)
           ELSE IF ~haskey(OPCODES, f.val)
           THEN /\ m' = invalid(f.m).m
                /\ last' = rec("InvalidOpcode",
                               <<invalid(f.m).opcode, invalid(f.m).pc>>)
           ELSE /\ m' = call(dictget(OPCODES, f.val)[2], f.m)
                /\ last' = rec("ok", <<>>)
    /\ Done

InitDispatch ==
    /\ \E k \in 1..Len(OpcodeItems), pc0 \in {256, 65534},
          o \in OperandPairs, f \in BOOLEAN :
         LET pc1 == incword(pc0, 1)
             pc2 == incword(pc0, 2)
             cells == [i \in {pc0, pc1, pc2} |->
                         IF i = pc0 THEN OpcodeItems[k][1]
                         ELSE IF i = pc1 THEN o[1]
                         ELSE o[2]]
         IN  m = AllFlags([Machine(MemOf(cells)) EXCEPT
                             !.a = 128, !.b = 1, !.pc = pc0, !.sp = 511], f)
    /\ Start(MaxSteps)

NextDispatch == ImportOpcodes \/ Dispatch

SpecDispatch == InitDispatch /\ [][NextDispatch]_vars

\* ---- decrement of B and the index register counts, every value of B
CountXSamples == {0, 1, 256, 65535}

InitCount ==
    /\ \E b0 \in 0..255, x0 \in CountXSamples, f \in BOOLEAN :
         m = AllFlags([Machine(MemOf(<<>>)) EXCEPT !.b = b0, !.x = x0], f)
    /\ Start(MaxOps)

NextCount == Decb \/ Inx \/ Dex

SpecCount == InitCount /\ [][NextCount]_vars

\* ---- balanced use of the stack: up to MaxDepth pushes (bytes by psha,
\* return addresses by jsr, jsrx, bsr), then the pops that undo them
PushNames == {"psha", "jsr", "jsrx", "bsr"}
PopNames == {"pula", "rts"}

\* The operations executed so far, each with the machine it started from
LifoTrace ==
    IF last.op = "none" THEN <<>>
    ELSE SubSeq(hist, 2, Len(hist)) \o <<[last |-> last, pre |-> pre]>>

IsPush(r) == r.last.op \in PushNames
IsPop(r) == r.last.op \in PopNames
Pushed == SelectSeq(LifoTrace, IsPush)
Popped == SelectSeq(LifoTrace, IsPop)

LifoPush ==
    /\ Len(Popped) = 0
    /\ Len(Pushed) < MaxDepth
    /\ (Psha \/ Jsr \/ Jsrx \/ Bsr)

\* Another value in A for the next psha
LifoChange ==
    /\ Len(Popped) = 0
    /\ Len(Pushed) < MaxDepth
    /\ last.op = "psha"
    /\ Asla

\* Undo the innermost push that is still on the stack
LifoPull ==
    /\ Len(Popped) < Len(Pushed)
    /\ Pushed[Len(Pushed) - Len(Popped)].last.op = "psha"
    /\ Pula

LifoReturn ==
    /\ Len(Popped) < Len(Pushed)
    /\ Pushed[Len(Pushed) - Len(Popped)].last.op # "psha"
    /\ Rts

LifoSpSamples == {0, 1, 2, 511}

InitLifo ==
    /\ \E pc0 \in PcSamples, sp0 \in LifoSpSamples, a0 \in {90, 255},
          x0 \in {0, 65535}, o \in {<<18, 254>>, <<255, 255>>}, f \in BOOLEAN :
         LET pc1 == incword(pc0, 1)
             cells == [i \in {pc0, pc1} |-> IF i = pc0 THEN o[1] ELSE o[2]]
         IN  m = AllFlags([Machine(MemOf(cells)) EXCEPT
                             !.a = a0, !.b = 255 - a0, !.x = x0, !.pc = pc0,
                             !.sp = sp0], f)
    /\ Start(3 * MaxDepth)

NextLifo == LifoPush \/ LifoChange \/ LifoPull \/ LifoReturn

SpecLifo == InitLifo /\ [][NextLifo]_vars

\* ===================================================== claims C1 .. C6
InByteRange(q) == \A k \in 1..Len(q) : q[k] >= 0 /\ q[k] <= ByteMax
InWordRange(q) == \A k \in 1..Len(q) : q[k] >= 0 /\ q[k] <= WordMax

\* The cells that may differ from zero before or after the last operation.
KnownCells == DOMAIN m.mem.cells \cup DOMAIN pre.mem.cells

\* C1: after a successful deposit(addr, data) with 0 <= addr and
\* addr+n <= 0x10000, bytes(addr, n) equals data, deposit returned data, and
\* every cell outside addr..addr+n-1 holds the value it had before.
C1_DepositThenBytes ==
    (/\ last.op = "deposit" /\ last.kind = "ok"
     /\ last.addr >= 0 /\ last.addr + last.n <= 65536
     /\ InByteRange(Flat(last.values)))
    => /\ bytes(m.mem, last.addr, last.n) = [kind |-> "ok", ret |-> Flat(last.values)]
       /\ last.ret = Flat(last.values)
       /\ m.mem.len = pre.mem.len
       /\ \A i \in KnownCells :
            (i < last.addr \/ i >= last.addr + last.n)
            => Cell(m.mem, i) = Cell(pre.mem, i)

C1_Witness ==
    /\ last.op = "deposit" /\ last.kind = "ok"
    /\ last.addr = 65534 /\ Flat(last.values) = <<255, 0>>
    /\ Cell(pre.mem, 65534) = 173 /\ Cell(pre.mem, 65535) = 174
    /\ Cell(m.mem, 1) = 172 /\ Cell(m.mem, 65534) = 255

\* C2: a deposit or depword call that fails leaves every cell unchanged and
\* the store at its 65536 cells; no prefix of the values is written.
C2_AllOrNothing ==
    (last.op \in {"deposit", "depword"} /\ last.kind # "ok")
    => (m.mem = pre.mem /\ m.mem.len = 65536)

\* C3: deposit fails with ValueError on any element outside 0..255, depword
\* on any element outside 0..65535; with legal values both fail with
\* IndexError exactly when the last address touched exceeds 0xFFFF, and
\* succeed otherwise.
C3_FailureKinds ==
    /\ last.op = "deposit" =>
         last.kind = IF HasOther(last.values) \/ ~InByteRange(Flat(last.values))
                     THEN "ValueError"
                     ELSE IF last.addr + last.n - 1 > 65535 THEN "IndexError"
                     ELSE "ok"
    /\ last.op = "depword" =>
         last.kind = IF HasOther(last.values) \/ ~InWordRange(Flat(last.values))
                     THEN "ValueError"
                     ELSE IF last.addr + 2 * last.n - 1 > 65535 THEN "IndexError"
                     ELSE "ok"

\* C3 (amended): the same for every address addr >= 0.
C3_FailureKindsFromZero == last.addr >= 0 => C3_FailureKinds

C3_Witness ==
    /\ last.op = "depword" /\ last.kind = "IndexError" /\ last.addr = 65535
    /\ Flat(last.values) = <<4660>> /\ m.mem = pre.mem

\* C4: every memory access operation called with an address outside
\* 0x0000..0xFFFF, or whose range extends past 0xFFFF, is rejected: it
\* returns nothing and leaves the cells and their number as they were.
C4_LastTouched ==
    CASE last.op = "byte" -> last.addr
      [] last.op = "bytes" -> last.addr + last.n - 1
      [] last.op = "word" -> last.addr + 1
      [] last.op = "words" -> last.addr + 2 * last.n - 1
      [] last.op = "deposit" -> last.addr + last.n - 1
      [] last.op = "depword" -> last.addr + 2 * last.n - 1
      [] OTHER -> 0

C4_OutOfRangeRejected ==
    (/\ last.op \in {"byte", "bytes", "word", "words", "deposit", "depword"}
     /\ (last.addr < 0 \/ last.addr > 65535 \/ C4_LastTouched > 65535))
    => (last.kind # "ok" /\ m.mem = pre.mem)

\* C5: for addr in 0..0xFFFE, word(addr) = byte(addr)*256 + byte(addr+1) and
\* lies in 0..65535; word(0xFFFF) fails.
C5_WordBigEndian ==
    last.op = "word" =>
      /\ (last.addr >= 0 /\ last.addr <= 65534) =>
           /\ last.kind = "ok"
           /\ last.ret = <<Cell(pre.mem, last.addr) * 256 + Cell(pre.mem, last.addr + 1)>>
           /\ byte(pre.mem, last.addr).ret = <<last.ret[1] \div 256>>
           /\ byte(pre.mem, last.addr + 1).ret = <<last.ret[1] % 256>>
           /\ last.ret[1] >= 0 /\ last.ret[1] <= 65535
      /\ last.addr = 65535 => last.kind # "ok"

C5_Witness ==
    /\ last.op = "word" /\ last.kind = "ok" /\ last.addr = 65534
    /\ last.ret = <<171 * 256 + 18>>

\* C6: with n words in 0..65535 and addr+2n <= 0x10000, after
\* depword(addr, w1..wn) words(addr, n) gives the words back, each word's
\* high byte is at addr+2i and its low byte at addr+2i+1, and depword
\* returned those 2n bytes.
C6_Holds ==
    LET ws == Flat(last.values) IN
    /\ last.kind = "ok"
    /\ words(m.mem, last.addr, last.n) = [kind |-> "ok", ret |-> ws]
    /\ \A k \in 1..last.n :
         /\ getitem(m.mem, last.addr + 2 * (k - 1)) = [kind |-> "ok", val |-> ws[k] \div 256]
         /\ getitem(m.mem, last.addr + 2 * (k - 1) + 1) = [kind |-> "ok", val |-> ws[k] % 256]
    /\ Len(last.ret) = 2 * last.n
    /\ \A k \in 1..last.n :
         last.ret[2 * k - 1] = ws[k] \div 256 /\ last.ret[2 * k] = ws[k] % 256

C6_DepwordThenWords ==
    (/\ last.op = "depword" /\ ~HasOther(last.values)
     /\ InWordRange(Flat(last.values))
     /\ last.addr + 2 * last.n <= 65536)
    => C6_Holds

\* C6 (amended): the same for every address addr >= 0.
C6_DepwordThenWordsFromZero ==
    (/\ last.op = "depword" /\ ~HasOther(last.values)
     /\ InWordRange(Flat(last.values))
     /\ last.addr >= 0 /\ last.addr + 2 * last.n <= 65536)
    => C6_Holds

C6_Witness ==
    /\ last.op = "depword" /\ last.kind = "ok" /\ last.addr = 65534
    /\ Flat(last.values) = <<4660>> /\ Cell(pre.mem, 65534) = 173
    /\ Cell(m.mem, 65534) = 18 /\ Cell(m.mem, 65535) = 52

\* ==================================================== claims C7 .. C10
\* The operand byte of the last instruction and the byte after it.
Opnd0 == Cell(pre.mem, pre.pc)
Opnd1 == Cell(pre.mem, (pre.pc + 1) % 65536)
Prev == hist[Len(hist)]

\* C7: ADDA gives r = (x+m) mod 256 with N = r7, Z = (r = 0),
\* C = x7.m7 + m7.~r7 + ~r7.x7, H the same on bit 3,
\* V = x7.m7.~r7 + ~x7.~m7.r7; 0x7F+0x01 = 0x80 with N=1 Z=0 V=1 C=0 H=1 and
\* 0xFF+0x01 = 0x00 with Z=1 C=1 V=0.
C7_AddFlags ==
    last.op = "adda" =>
      LET x == pre.a
          r == (x + Opnd0) % 256
          x7 == Bit(x, 7)       x3 == Bit(x, 3)
          m7 == Bit(Opnd0, 7)   m3 == Bit(Opnd0, 3)
          r7 == Bit(r, 7)       r3 == Bit(r, 3)
      IN  /\ m.a = r
          /\ m.N = r7
          /\ m.Z = (r = 0)
          /\ m.C = ((x7 /\ m7) \/ (m7 /\ ~r7) \/ (~r7 /\ x7))
          /\ m.H = ((x3 /\ m3) \/ (m3 /\ ~r3) \/ (~r3 /\ x3))
          /\ m.V = ((x7 /\ m7 /\ ~r7) \/ (~x7 /\ ~m7 /\ r7))
          /\ (x = 127 /\ Opnd0 = 1) =>
               (m.a = 128 /\ m.N /\ ~m.Z /\ m.V /\ ~m.C /\ m.H)
          /\ (x = 255 /\ Opnd0 = 1) =>
               (m.a = 0 /\ m.Z /\ m.C /\ ~m.V)

C7_Witness ==
    /\ last.op = "adda" /\ pre.a = 127 /\ Opnd0 = 1 /\ pre.C /\ ~pre.H
    /\ m.a = 128 /\ m.V /\ m.H /\ ~m.C

\* C8: SUBA and CMPA give r = (x-m) mod 256 with N = r7, Z = (r = 0),
\* C = ~x7.m7 + m7.r7 + r7.~x7, V = x7.~m7.~r7 + ~x7.m7.r7 and H unchanged;
\* SUBA stores r in A, CMPA leaves A; 0x00-0x01 = 0xFF with N=1 Z=0 C=1 V=0.
C8_SubFlags ==
    last.op \in {"suba", "cmpa"} =>
      LET x == pre.a
          r == (x - Opnd0) % 256
          x7 == Bit(x, 7)
          m7 == Bit(Opnd0, 7)
          r7 == Bit(r, 7)
      IN  /\ m.a = IF last.op = "suba" THEN r ELSE pre.a
          /\ m.N = r7
          /\ m.Z = (r = 0)
          /\ m.C = ((~x7 /\ m7) \/ (m7 /\ r7) \/ (r7 /\ ~x7))
          /\ m.V = ((x7 /\ ~m7 /\ ~r7) \/ (~x7 /\ m7 /\ r7))
          /\ m.H = pre.H
          /\ (x = 0 /\ Opnd0 = 1) =>
               (r = 255 /\ m.N /\ ~m.Z /\ m.C /\ ~m.V)

C8_Witness ==
    /\ last.op = "suba" /\ pre.a = 0 /\ Opnd0 = 1 /\ pre.H /\ ~pre.C
    /\ m.a = 255 /\ m.N /\ m.C /\ m.H

\* C9: after CPX, CPXz or CPXm, Z is set iff X equals the 16-bit argument,
\* C is as before, N and V are those of the 8-bit compare of the high byte
\* of X with the high byte of the argument, and X is unchanged.
C9_ArgAddr ==
    IF last.op = "cpx" THEN pre.pc
    ELSE IF last.op = "cpxz" THEN Opnd0
    ELSE Opnd0 * 256 + Opnd1

C9_CpxFlags ==
    last.op \in {"cpx", "cpxz", "cpxm"} =>
      LET argh == Cell(pre.mem, C9_ArgAddr)
          argl == Cell(pre.mem, (C9_ArgAddr + 1) % 65536)
          xh == pre.x \div 256
          rh == (xh - argh) % 256
          x7 == Bit(xh, 7)
          m7 == Bit(argh, 7)
          r7 == Bit(rh, 7)
      IN  /\ m.Z = (pre.x = argh * 256 + argl)
          /\ m.C = pre.C
          /\ m.N = r7
          /\ m.V = ((x7 /\ ~m7 /\ ~r7) \/ (~x7 /\ m7 /\ r7))
          /\ m.x = pre.x

C9_Witness ==
    /\ last.op = "cpx" /\ pre.x = 128 * 256 /\ Opnd0 = 0 /\ Opnd1 = 1
    /\ pre.C /\ pre.V /\ m.C /\ m.N /\ ~m.V /\ ~m.Z

\* C10: TPA then TAP leaves all six flags as they were; the A written by
\* TPA has bits 7 and 6 set and bits 5..0 equal to H,I,N,Z,V,C; TAP then
\* TPA yields A = (A or 0xC0).
C10_TpaTap ==
    /\ last.op = "tpa" =>
         /\ Bit(m.a, 7) /\ Bit(m.a, 6) /\ m.a \in 0..255
         /\ <<Bit(m.a, 5), Bit(m.a, 4), Bit(m.a, 3),
              Bit(m.a, 2), Bit(m.a, 1), Bit(m.a, 0)>> = Flags(pre)
    /\ (last.op = "tap" /\ Len(hist) > 0 /\ Prev.last.op = "tpa") =>
         Flags(m) = Flags(Prev.pre)
    /\ (last.op = "tpa" /\ Len(hist) > 0 /\ Prev.last.op = "tap") =>
         m.a = 192 + (Prev.pre.a % 64)

C10_Witness ==
    /\ last.op = "tap" /\ Len(hist) > 0 /\ Prev.last.op = "tpa"
    /\ Prev.pre.a = 0 /\ pre.a = 233
    /\ Flags(m) = <<TRUE, FALSE, TRUE, FALSE, FALSE, TRUE>>

\* ==================================================== claims C11 .. C20
\* The address of the opcode byte: the implementation is entered with the
\* PC one past it.
OpcodeAddr == (pre.pc + 65535) % 65536

Signed(o) == IF o >= 128 THEN o - 256 ELSE o

BranchOps == {"bra", "bcc", "bcs", "bvc", "bvs", "beq", "bne", "bmi", "bpl"}

Taken(op, f) ==
    CASE op = "bra" -> TRUE
      [] op = "bcc" -> ~f.C
      [] op = "bcs" -> f.C
      [] op = "bvc" -> ~f.V
      [] op = "bvs" -> f.V
      [] op = "beq" -> f.Z
      [] op = "bne" -> ~f.Z
      [] op = "bmi" -> f.N
      [] op = "bpl" -> ~f.N

\* C11: a relative branch with its opcode at P and its offset byte at P+1
\* ends with PC = (P + 2 + signed(offset)) mod 65536 when its predicate holds
\* on the flags at call time (BRA always, BEQ iff Z, BNE iff not Z, BCS iff
\* C, BCC iff not C, BVS iff V, BVC iff not V, BMI iff N, BPL iff not N) and
\* with PC = (P + 2) mod 65536 otherwise; a taken branch with offset byte
\* 0xFE ends with PC = P, also for P = 0xFFFE and P = 0xFFFF.
C11_RelativeBranch ==
    last.op \in BranchOps =>
        LET P == OpcodeAddr
            off == Cell(pre.mem, (P + 1) % 65536)
            taken == Taken(last.op, pre)
        IN  /\ m.pc = IF taken THEN (P + 2 + Signed(off)) % 65536
                      ELSE (P + 2) % 65536
            /\ (taken /\ off = 254 => m.pc = P)

\* A taken backward branch to itself from the last address of the memory.
C11_Witness ==
    /\ last.op = "bmi" /\ pre.N
    /\ OpcodeAddr = 65535
    /\ Cell(pre.mem, 0) = 254
    /\ m.pc = 65535

CallOps == {"jsr", "jsrx", "bsr"}

\* Number of operand bytes of a call
OperandLen(op) == IF op = "jsr" THEN 2 ELSE 1

\* The address following the call that was made from machine mc
ReturnAddr(op, mc) == (mc.pc + OperandLen(op)) % 65536

\* The target of the call that was made from machine mc
CallTarget(op, mc) ==
    LET o0 == Cell(mc.mem, mc.pc)
        o1 == Cell(mc.mem, (mc.pc + 1) % 65536)
    IN  CASE op = "jsr" -> o0 * 256 + o1
          [] op = "jsrx" -> (mc.x + o0) % 65536
          [] op = "bsr" -> (mc.pc + 1 + Signed(o0)) % 65536

\* C12: JSR, JSRx or BSR followed by RTS leaves PC at the address right
\* after the call's last operand byte (mod 65536) and SP at its value before
\* the call, for every starting PC, SP and target, also where the stack
\* wraps at SP = 0x0000 or 0x0001.
C12_CallReturn ==
    (last.op = "rts" /\ Prev.last.op \in CallOps) =>
        /\ pre.pc = CallTarget(Prev.last.op, Prev.pre)
        /\ m.pc = ReturnAddr(Prev.last.op, Prev.pre)
        /\ m.sp = Prev.pre.sp

\* A call from the last address of the memory with the stack wrapping.
C12_Witness ==
    /\ last.op = "rts" /\ Prev.last.op = "jsr"
    /\ Prev.pre.pc = 65535 /\ Prev.pre.sp = 0
    /\ pre.sp = 65534
    /\ m.pc = 1 /\ m.sp = 0

\* C13 as stated: after JSR, JSRx or BSR with SP = s, the cell at s holds
\* the high byte of the return address, the cell at (s-1) mod 65536 the low
\* byte, SP = (s-2) mod 65536 and PC = target.
C13_HighByteFirst ==
    last.op \in CallOps =>
        LET s == pre.sp
            ret == ReturnAddr(last.op, pre)
        IN  /\ Cell(m.mem, s) = ret \div 256
            /\ Cell(m.mem, (s + 65535) % 65536) = ret % 256
            /\ m.sp = (s + 65534) % 65536
            /\ m.pc = CallTarget(last.op, pre)

\* C13 amended: after JSR, JSRx or BSR with SP = s, the low byte of the
\* return address was pushed first: the cell at s holds the low byte, the
\* cell at (s-1) mod 65536 the high byte, SP = (s-2) mod 65536 and
\* PC = target.
C13_LowByteFirst ==
    last.op \in CallOps =>
        LET s == pre.sp
            ret == ReturnAddr(last.op, pre)
        IN  /\ Cell(m.mem, s) = ret % 256
            /\ Cell(m.mem, (s + 65535) % 65536) = ret \div 256
            /\ m.sp = (s + 65534) % 65536
            /\ m.pc = CallTarget(last.op, pre)

\* A call whose return address 0x0102 has different high and low bytes.
C13_Witness ==
    /\ last.op = "jsr" /\ pre.pc = 256 /\ pre.sp = 511
    /\ Cell(m.mem, 511) = 2 /\ Cell(m.mem, 510) = 1
    /\ m.sp = 509

\* What PSHA and PULA leave alone
StackFrame == Flags(m) = Flags(pre) /\ m.pc = pre.pc /\ m.b = pre.b /\ m.x = pre.x

\* C14: PSHA stores A at the cell addressed by SP and then sets SP to
\* (SP-1) mod 65536; PULA sets SP to (SP+1) mod 65536 and then loads A from
\* the cell addressed by SP; neither changes a flag, PC, B or X; PSHA
\* followed by PULA leaves A and SP at their original values.
C14_PshaPula ==
    /\ last.op = "psha" =>
           /\ Cell(m.mem, pre.sp) = pre.a
           /\ m.sp = (pre.sp + 65535) % 65536
           /\ StackFrame
    /\ last.op = "pula" =>
           /\ m.sp = (pre.sp + 1) % 65536
           /\ m.a = Cell(pre.mem, (pre.sp + 1) % 65536)
           /\ StackFrame
    /\ (last.op = "pula" /\ Prev.last.op = "psha") =>
           /\ m.a = Prev.pre.a
           /\ m.sp = Prev.pre.sp

\* PSHA with SP = 0 wraps the SP to 0xFFFF, PULA brings A and SP back.
C14_Witness ==
    /\ last.op = "pula" /\ Prev.last.op = "psha"
    /\ Prev.pre.sp = 0 /\ pre.sp = 65535 /\ m.sp = 0
    /\ Prev.pre.a = 90 /\ m.a = 90

\* C15: when the opcode byte fetched from address P has no implementation,
\* the InvalidOpcode failure carries opcode = the byte stored at P and
\* pc = P, for every P in 0x0000..0xFFFF, including P = 0xFFFF where the PC
\* has wrapped to 0x0000 after the fetch.
C15_InvalidOpcode ==
    last.op = "invalid" =>
        /\ last.kind = "InvalidOpcode"
        /\ last.ret = <<Cell(pre.mem, OpcodeAddr), OpcodeAddr>>

DuplicateKeys(items) ==
    \E i \in 1..Len(items), j \in 1..Len(items) : i # j /\ items[i][1] = items[j][1]

SymRecords ==
    IF last.op = "SymTab" THEN last.values
    ELSE IF Len(hist) >= 2 /\ hist[2].last.op = "SymTab" THEN hist[2].last.values
    ELSE <<>>

SymNames == {SymRecords[i].name : i \in 1..Len(SymRecords)}

FirstIndex(name) ==
    CHOOSE i \in 1..Len(SymRecords) :
        /\ SymRecords[i].name = name
        /\ \A j \in 1..(i - 1) : SymRecords[j].name # name

LastRecord(name) ==
    SymRecords[CHOOSE i \in 1..Len(SymRecords) :
                   /\ SymRecords[i].name = name
                   /\ \A j \in (i + 1)..Len(SymRecords) : SymRecords[j].name # name]

\* A lookup of the given kinds returns the last record registered under the
\* name, or signals that the name is not found
LookupLastWins(ops) ==
    last.op \in ops =>
        LET name == last.values[1] IN
        IF name \in SymNames
        THEN /\ last.kind = "ok"
             /\ last.ret = IF last.op = "sym" THEN <<LastRecord(name)>>
                           ELSE <<LastRecord(name).value>>
        ELSE last.kind \in {"KeyError", "AttributeError"}

LenIsDistinctNames == last.op = "len" => last.ret = <<Cardinality(SymNames)>>

\* C17 as stated: for a table built from any ordered collection of records,
\* lookup of a name by index, by attribute or via sym returns the value or
\* record of the last record registered under that name, the length is the
\* number of distinct names, and lookup of a name in no record signals
\* NotFound.
C17_Lookup ==
    /\ LookupLastWins({"sym", "getitem", "getattr"})
    /\ LenIsDistinctNames

\* C17 amended: the same, with lookup by attribute only for names that are
\* not already attributes of the table object (sym, symbols, Symbol).
C17_LookupButOwnAttributes ==
    /\ LookupLastWins({"sym", "getitem"})
    /\ (last.op = "getattr" /\ last.values[1] \notin ExistingAttributes)
           => LookupLastWins({"getattr"})
    /\ LenIsDistinctNames

\* A name registered twice is looked up by attribute: the later value.
C17_Witness ==
    /\ last.op = "getattr" /\ last.values = <<"a">>
    /\ Len(SymRecords) = 3
    /\ SymRecords[1].name = "a" /\ SymRecords[1].value = 1
    /\ SymRecords[3].name = "a" /\ SymRecords[3].value = 2
    /\ last.ret = <<2>>

\* The pairs an iteration yields
IterPairs ==
    last.op = "iter" =>
        /\ Len(last.ret) = Cardinality(SymNames)
        /\ \A k \in 1..Len(last.ret) :
              /\ Len(last.ret[k]) = 2
              /\ last.ret[k][1] \in SymNames
              /\ last.ret[k][2] = LastRecord(last.ret[k][1]).value
        /\ \A k \in 1..Len(last.ret), l \in 1..Len(last.ret) :
              k < l => FirstIndex(last.ret[k][1]) < FirstIndex(last.ret[l][1])

\* C18: iterating a symbol table yields exactly one (name, value) pair per
\* distinct name and nothing else (no section), in the order in which the
\* names were first inserted; each pair's value is the one lookup returns
\* for that name, and iteration does not change the table.
C18_Iteration ==
    /\ [](IterPairs)
    /\ [][last'.op = "iter" => symbols' = symbols]_vars

\* Iteration over a table built from records a, b, a.
C18_Witness ==
    /\ last.op = "iter"
    /\ Len(SymRecords) = 3
    /\ SymRecords[1].name = "a" /\ SymRecords[2].name = "b"
    /\ SymRecords[3].name = "a" /\ SymRecords[3].value = 2
    /\ SymRecords[1].value = 1
    /\ last.ret = << <<"a", 2>>, <<"b", SymRecords[2].value>> >>

ShiftOps == {"asla", "rola", "lsra", "asra", "rora"}

\* The shifted value of A under each instruction, from its bits
Shifted(op, a, c) ==
    CASE op = "asla" -> (2 * a) % 256
      [] op = "rola" -> ((2 * a) % 256) + c
      [] op = "lsra" -> a \div 2
      [] op = "asra" -> a \div 2 + 128 * (a \div 128)
      [] op = "rora" -> a \div 2 + 128 * c

\* C19: for ASLA, ROLA, LSRA, ASRA and RORA, every A in 0..255 and every
\* incoming C, the new C is the bit shifted out of A (bit 7 for ASLA/ROLA,
\* bit 0 for LSRA/ASRA/RORA), the new A is in 0..255 and is the shifted
\* value (ROLA puts the old C in bit 0, RORA in bit 7, ASRA keeps bit 7, ASLA
\* and LSRA shift in 0), N and Z are computed from the new A, and
\* V = N xor (new C).
C19_Shift ==
    last.op \in ShiftOps =>
        LET out == IF last.op \in {"asla", "rola"} THEN pre.a \div 128
                   ELSE pre.a % 2
        IN  /\ m.C = (out = 1)
            /\ m.a \in 0..255
            /\ m.a = Shifted(last.op, pre.a, B2I(pre.C))
            /\ m.N = (m.a >= 128)
            /\ m.Z = (m.a = 0)
            /\ m.V = (m.N # m.C)

\* RORA of A = 1 with the carry set: bit 0 moves to C, the old C to bit 7.
C19_Witness ==
    /\ last.op = "rora" /\ pre.a = 1 /\ pre.C
    /\ m.a = 128 /\ m.C /\ m.N /\ ~m.Z /\ ~m.V

RegistersInRange ==
    /\ m.a \in 0..255 /\ m.b \in 0..255
    /\ m.x \in 0..65535 /\ m.pc \in 0..65535 /\ m.sp \in 0..65535

\* A 16-bit operand fetched with PC = 0xFFFF: high byte from 0xFFFF, low
\* byte from 0x0000, PC left at 0x0001 (JMP then moves the PC to the operand)
FetchWraps ==
    pre.pc = 65535 =>
        LET w == Cell(pre.mem, 65535) * 256 + Cell(pre.mem, 0) IN
        /\ last.op = "ldx" => m.x = w /\ m.pc = 1
        /\ last.op = "ldaam" => m.a = Cell(pre.mem, w) /\ m.pc = 1
        /\ last.op = "ldabm" => m.b = Cell(pre.mem, w) /\ m.pc = 1
        /\ last.op = "staam" => Cell(m.mem, w) = pre.a /\ m.pc = 1
        /\ last.op = "stabm" => Cell(m.mem, w) = pre.b /\ m.pc = 1
        /\ last.op = "jmp" => m.pc = w

\* Pushes and pops move the SP across the 0x0000 / 0xFFFF boundary
StackWraps ==
    /\ last.op = "psha" => m.sp = (pre.sp + 65535) % 65536
    /\ last.op = "pula" => m.sp = (pre.sp + 1) % 65536
    /\ last.op \in CallOps => m.sp = (pre.sp + 65534) % 65536
    /\ last.op = "rts" => m.sp = (pre.sp + 2) % 65536

\* C20: starting from registers in range and memory cells in 0..255, after
\* any sequence of instruction implementations A and B are in 0..255 and X,
\* PC and SP in 0..65535; a 16-bit operand fetched with PC = 0xFFFF takes
\* its high byte from 0xFFFF and its low byte from 0x0000 and leaves
\* PC = 0x0001; pushes and pops wrap the SP between 0x0000 and 0xFFFF.
C20_RangesAndWraps ==
    /\ RegistersInRange
    /\ FetchWraps
    /\ StackWraps

\* LDX with its operand across the top of the memory.
C20_Witness ==
    /\ last.op = "ldx" /\ pre.pc = 65535
    /\ Cell(pre.mem, 65535) = 18 /\ Cell(pre.mem, 0) = 254
    /\ m.x = 4862 /\ m.pc = 1

\* ==================================================== claims C21 .. C29
Regs(mc) == <<mc.a, mc.b, mc.x, mc.pc, mc.sp, mc.H, mc.I, mc.N, mc.Z, mc.V, mc.C>>

ImplNames ==
    {"nop", "jmp", "jmpx", "jsr", "jsrx", "bsr", "rts", "pula", "psha", "tap",
     "tpa", "ldaa", "ldab", "ldaaz", "ldabz", "ldaam", "ldabm", "ldaax",
     "ldabx", "ldx", "ldxz", "ldxm", "ldxx", "clra", "clrb", "clrm", "clrx",
     "staam", "stabm", "staax", "stabx", "stxz", "stxm", "anda", "decb",
     "inx", "dex", "adda", "suba", "cmpa", "cpx", "cpxz", "cpxm"}
        \cup BranchOps \cup ShiftOps

\* Addresses at which a second machine's memory is made to differ
AltAddrs == {0, 1, 2, 18, 19, 128, 254, 255, 256, 257, 512, 513, 65534, 65535}

\* The machine before the call with one cell holding another value
AltMachine(i) == [pre EXCEPT !.mem = setitem(pre.mem, i, (Cell(pre.mem, i) + 1) % 256)]

\* The cells an implementation can read: its operand bytes, the cells at the
\* direct-page, extended and indexed effective addresses and their
\* successors, and the two cells above the SP
ReadSet ==
    LET o0 == Cell(pre.mem, pre.pc)
        o1 == Cell(pre.mem, (pre.pc + 1) % 65536)
        w == o0 * 256 + o1
        ix == (pre.x + o0) % 65536
    IN  {pre.pc, (pre.pc + 1) % 65536, o0, o0 + 1, w, (w + 1) % 65536,
         ix, (ix + 1) % 65536, (pre.sp + 1) % 65536, (pre.sp + 2) % 65536}

\* C21 as stated: two machines with the same registers and flags whose
\* memories agree at the opcode address and at every address after it are
\* left with the same registers and flags by the same instruction.
C21_DeterminedByBytesAfterPc ==
    last.op \in ImplNames =>
        \A i \in AltAddrs :
            i < OpcodeAddr => Regs(call(last.op, AltMachine(i))) = Regs(m)

\* C21 amended: two machines with the same registers and flags whose
\* memories agree at the operand bytes (PC and PC+1 mod 65536 on entry), at
\* the direct-page, extended and indexed effective addresses and their
\* successors and at the cells at SP+1 and SP+2 are left with the same
\* registers and flags by the same instruction.
C21_DeterminedByCellsRead ==
    last.op \in ImplNames =>
        \A i \in AltAddrs :
            i \notin ReadSet => Regs(call(last.op, AltMachine(i))) = Regs(m)

\* A direct-page load whose cell lies below the opcode: a second machine
\* that differs there loads another value, one that differs elsewhere does
\* not.
C21_Witness ==
    /\ last.op = "ldaaz" /\ pre.pc = 256 /\ Cell(pre.mem, 256) = 18
    /\ Regs(call("ldaaz", AltMachine(18))) # Regs(m)
    /\ Regs(call("ldaaz", AltMachine(19))) = Regs(m)

\* C22: in every reachable state the memory store has exactly 65536 cells
\* and every cell holds a value in 0..255, after any sequence of successful
\* or failed deposit/depword calls and of instruction implementations.
C22_MemoryShape ==
    /\ m.mem.len = MemSize
    /\ \A i \in DOMAIN m.mem.cells :
          i \in 0..LastAddr /\ m.mem.cells[i] \in 0..ByteMax

ImpliedOps ==
    {"nop", "tap", "tpa", "psha", "pula", "clra", "clrb", "decb", "inx", "dex"}
        \cup ShiftOps
Immediate8Ops == {"ldaa", "ldab", "anda", "adda", "suba", "cmpa"}
DirectOps == {"ldaaz", "ldabz", "ldxz", "stxz", "cpxz"}
IndexedOps == {"ldaax", "ldabx", "ldxx", "clrx", "staax", "stabx"}
ExtendedOps == {"ldaam", "ldabm", "ldxm", "clrm", "staam", "stabm", "stxm", "cpxm"}
Immediate16Ops == {"ldx", "cpx"}

\* Operand length of an implementation that is not a control transfer
OperandBytes(op) ==
    IF op \in ImpliedOps THEN 0
    ELSE IF op \in Immediate8Ops \cup DirectOps \cup IndexedOps THEN 1
    ELSE 2

\* Effective address of the last call, by its addressing mode
EffectiveAddr ==
    IF last.op \in DirectOps THEN Opnd0
    ELSE IF last.op \in ExtendedOps THEN Opnd0 * 256 + Opnd1
    ELSE (pre.x + Opnd0) % 65536

\* The word stored at an address of a memory, high byte first
WordAt(mem, addr) == Cell(mem, addr) * 256 + Cell(mem, (addr + 1) % 65536)

\* C23: an implementation that is not a control transfer, entered with
\* PC = p, returns with PC = (p + k) mod 65536, k the operand length of its
\* addressing mode (0 implied, 1 for 8-bit immediate, direct-page and
\* indexed, 2 for extended and the 16-bit immediates LDX and CPX); the
\* effective address is the operand byte for direct-page, the operand word
\* for extended and (X + unsigned offset byte) mod 65536 for indexed.
C23_OperandLengthAndAddress ==
    /\ last.op \in ImpliedOps \cup Immediate8Ops \cup DirectOps \cup IndexedOps
                   \cup ExtendedOps \cup Immediate16Ops
          => m.pc = (pre.pc + OperandBytes(last.op)) % 65536
    /\ last.op \in {"ldaaz", "ldaam", "ldaax"} => m.a = Cell(pre.mem, EffectiveAddr)
    /\ last.op \in {"ldabz", "ldabm", "ldabx"} => m.b = Cell(pre.mem, EffectiveAddr)
    /\ last.op \in {"ldxz", "ldxm", "ldxx"} => m.x = WordAt(pre.mem, EffectiveAddr)
    /\ last.op \in {"staam", "staax"} => Cell(m.mem, EffectiveAddr) = pre.a
    /\ last.op \in {"stabm", "stabx"} => Cell(m.mem, EffectiveAddr) = pre.b
    /\ last.op \in {"stxz", "stxm"} => WordAt(m.mem, EffectiveAddr) = pre.x
    /\ last.op \in {"clrm", "clrx"} => Cell(m.mem, EffectiveAddr) = 0
    /\ last.op \in {"cpxz", "cpxm"} => m.Z = (pre.x = WordAt(pre.mem, EffectiveAddr))
    /\ last.op = "ldx" => m.x = Opnd0 * 256 + Opnd1

\* An indexed store whose address wraps: X = 0xFFFF plus offset 0xFF is 0x00FE.
C23_Witness ==
    /\ last.op = "staax" /\ pre.x = 65535 /\ Opnd0 = 255 /\ pre.a = 128
    /\ pre.pc = 256 /\ m.pc = 257
    /\ Cell(pre.mem, 254) = 0 /\ Cell(m.mem, 254) = 128

Load8AOps == {"ldaa", "ldaaz", "ldaam", "ldaax"}
Load8BOps == {"ldab", "ldabz", "ldabm", "ldabx"}
Load16Ops == {"ldx", "ldxz", "ldxm", "ldxx"}
StoreAOps == {"staam", "staax"}
StoreBOps == {"stabm", "stabx"}
StoreXOps == {"stxz", "stxm"}
ClearOps == {"clra", "clrb", "clrm", "clrx"}

\* N, Z and V as data movement and logic set them from a value
MovedFlags(val, signbit) ==
    /\ m.N = ((val \div (2 ^ signbit)) % 2 = 1)
    /\ m.Z = (val = 0)
    /\ m.V = FALSE

KeepsCHI == m.C = pre.C /\ m.H = pre.H /\ m.I = pre.I

\* The memory is as before but for the cells at the given addresses
ChangesOnly(addrs) ==
    /\ m.mem.len = pre.mem.len
    /\ \A i \in (DOMAIN m.mem.cells \cup DOMAIN pre.mem.cells) \ addrs :
          Cell(m.mem, i) = Cell(pre.mem, i)

\* C24: LDAA/LDAB in every addressing mode, LDX, STAA/STAB, STX and ANDA set
\* N to the sign bit of the value moved or computed (bit 7, bit 15 for
\* LDX/STX), Z to (value = 0) and V to false and leave C, H and I as they
\* were; loads and ANDA leave the memory unchanged, stores change only the
\* addressed cell(s) and leave A, B and X unchanged; CLRA, CLRB, CLRm and
\* CLRx also clear C and end with N = 0, Z = 1, V = 0.
C24_DataMovementFrame ==
    /\ last.op \in Load8AOps \cup {"anda"} =>
           MovedFlags(m.a, 7) /\ KeepsCHI /\ m.mem = pre.mem
    /\ last.op \in Load8BOps => MovedFlags(m.b, 7) /\ KeepsCHI /\ m.mem = pre.mem
    /\ last.op \in Load16Ops => MovedFlags(m.x, 15) /\ KeepsCHI /\ m.mem = pre.mem
    /\ last.op \in StoreAOps \cup StoreBOps \cup StoreXOps =>
           /\ KeepsCHI
           /\ m.a = pre.a /\ m.b = pre.b /\ m.x = pre.x
    /\ last.op \in StoreAOps =>
           MovedFlags(pre.a, 7) /\ ChangesOnly({EffectiveAddr})
    /\ last.op \in StoreBOps =>
           MovedFlags(pre.b, 7) /\ ChangesOnly({EffectiveAddr})
    /\ last.op \in StoreXOps =>
           /\ MovedFlags(pre.x, 15)
           /\ ChangesOnly({EffectiveAddr, (EffectiveAddr + 1) % 65536})
    /\ last.op \in ClearOps =>
           ~m.C /\ ~m.N /\ m.Z /\ ~m.V /\ m.H = pre.H /\ m.I = pre.I

\* A store of a negative A with V and C set before: V is cleared, C kept.
C24_Witness ==
    /\ last.op = "staam" /\ pre.a = 128 /\ pre.V /\ pre.C /\ pre.Z
    /\ m.N /\ ~m.Z /\ ~m.V /\ m.C
    /\ Cell(m.mem, EffectiveAddr) = 128 /\ Cell(pre.mem, EffectiveAddr) # 128

\* C25: every opcode byte listed in the opcode table dispatches to a
\* defined implementation; dispatching 0xB7 (STAAm) with operand word W
\* stores A in the cell at W, advances the PC past the two operand bytes,
\* sets N and Z from A, clears V and leaves A, C and every other cell
\* unchanged; dispatching 0x01 (NOP) leaves registers, flags and memory
\* unchanged (the PC is past the opcode).
C25_ListedOpcodesDispatch ==
    (last.op = "dispatch"
        /\ \E k \in 1..Len(OpcodeItems) : OpcodeItems[k][1] = last.n) =>
        /\ last.kind = "ok"
        /\ last.n = 183 =>
               LET W == WordAt(pre.mem, (pre.pc + 1) % 65536) IN
               /\ Cell(m.mem, W) = pre.a
               /\ m.pc = (pre.pc + 3) % 65536
               /\ m.N = (pre.a >= 128) /\ m.Z = (pre.a = 0) /\ ~m.V
               /\ m.a = pre.a /\ m.C = pre.C
               /\ ChangesOnly({W})
        /\ last.n = 1 => m = [pre EXCEPT !.pc = (pre.pc + 1) % 65536]

\* C26: when an InvalidOpcode failure is signaled no instruction effect has
\* been applied: A, B, X, SP, the six flags and every memory cell have the
\* values they had before the opcode byte was fetched.
C26_InvalidLeavesState ==
    (last.op = "invalid" /\ last.kind = "InvalidOpcode") =>
        /\ m.a = pre.a /\ m.b = pre.b /\ m.x = pre.x /\ m.sp = pre.sp
        /\ Flags(m) = Flags(pre)
        /\ m.mem = pre.mem

C26_Witness ==
    /\ last.op = "invalid" /\ last.kind = "InvalidOpcode"
    /\ last.ret[1] = 255
    /\ pre.a = 90 /\ pre.sp = 0 /\ pre.C /\ pre.pc = 256
    /\ Cell(m.mem, 255) = 255

\* C27: the flags of 8-bit addition and subtraction agree with their
\* arithmetic meaning for every pair x, m in 0..255: after addition
\* C = (x + m > 255), H = ((x mod 16) + (m mod 16) > 15) and V = (the signed
\* sum lies outside -128..127); after subtraction or compare C = (x < m as
\* unsigned values) and V = (the signed difference lies outside -128..127).
C27_ArithmeticMeaning ==
    LET x == pre.a
        opnd == Opnd0
    IN  /\ last.op = "adda" =>
              /\ m.C = (x + opnd > 255)
              /\ m.H = ((x % 16) + (opnd % 16) > 15)
              /\ m.V = (Signed(x) + Signed(opnd) \notin (0 - 128)..127)
        /\ last.op \in {"suba", "cmpa"} =>
              /\ m.C = (x < opnd)
              /\ m.V = (Signed(x) - Signed(opnd) \notin (0 - 128)..127)

C27_Witness ==
    /\ last.op = "cmpa" /\ pre.a = 128 /\ Opnd0 = 129
    /\ m.C /\ ~m.V /\ m.N /\ m.a = 128

\* C28: DECB sets B to (B - 1) mod 256, sets N and Z from the new B, leaves
\* C unchanged and sets V exactly when B was 0x80 before the instruction
\* (new B = 0x7F); decrementing 0x00 to 0xFF leaves V = 0.
C28_DecbOverflow ==
    last.op = "decb" =>
        /\ m.b = (pre.b + 255) % 256
        /\ m.N = (m.b >= 128)
        /\ m.Z = (m.b = 0)
        /\ m.C = pre.C
        /\ m.V = (pre.b = 128)
        /\ pre.b = 0 => (m.b = 255 /\ ~m.V)

\* The machine after the i-th operation of the trace
LifoAfter(i) == IF i = Len(LifoTrace) THEN m ELSE LifoTrace[i + 1].pre

\* C29: the stack is last-in-first-out across a balanced sequence: after n
\* pushes, the j-th pop undoes the (n+1-j)-th push: PULA returns the byte
\* that PSHA pushed, RTS returns to the return address of that call, and
\* the SP is the one before that push (so n pops restore the initial SP),
\* also when the SP crosses the $0000/$FFFF boundary.
C29_Lifo ==
    \A j \in 1..Len(Popped) :
        LET n == Len(Pushed)
            push == Pushed[n + 1 - j]
            i == CHOOSE k \in 1..Len(LifoTrace) :
                    /\ IsPop(LifoTrace[k])
                    /\ Len(SelectSeq(SubSeq(LifoTrace, 1, k), IsPop)) = j
            after == LifoAfter(i)
        IN  /\ after.sp = push.pre.sp
            /\ LifoTrace[i].last.op = "pula" =>
                   (push.last.op = "psha" /\ after.a = push.pre.a)
            /\ LifoTrace[i].last.op = "rts" =>
                   /\ push.last.op \in CallOps
                   /\ after.pc = ReturnAddr(push.last.op, push.pre)

\* Two bytes pushed across the boundary come back in reverse order.
C29_Witness ==
    /\ Len(LifoTrace) = 5
    /\ [k \in 1..5 |-> LifoTrace[k].last.op]
          = <<"psha", "asla", "psha", "pula", "pula">>
    /\ LifoTrace[1].pre.sp = 0 /\ LifoTrace[1].pre.a = 90
    /\ LifoTrace[3].pre.sp = 65535 /\ LifoTrace[3].pre.a = 180
    /\ pre.a = 180 /\ m.a = 90 /\ m.sp = 0

====
